---------------------------- MODULE Spec2Model ----------------------------
(***************************************************************************)
(* Pricing-context composition and measure evaluation of pricingcore:      *)
(* transform builders, stacked vectorized contexts, the shifted executor,  *)
(* the measure dispatcher with the stock, option and generic calculators,  *)
(* and the position scaler.                                                *)
(*                                                                         *)
(* Numbers.  The code computes in f64.  The model computes in exact        *)
(* rationals <<n, d>> (d > 0, lowest terms); <<0, 0>> is NaN, the value    *)
(* Array::from_elem fills a fresh tensor with.  The Black-Scholes kernel   *)
(* uses ln, sqrt and the normal cdf, which have no rational value: the     *)
(* operator black_scholes is a polynomial stand-in that keeps the kernel's *)
(* signature, its dependence on each parameter and on the option type, and *)
(* the fact that it never fails.                                           *)
(***************************************************************************)
EXTENDS Integers, Sequences, FiniteSets, TLC

(***************************************************************************)
(* Bounds of the model.                                                    *)
(***************************************************************************)
\* longest abs_shifts / rel_shifts vector handed to a transform builder
MaxLen == 2
\* longest chain of stacked contexts the driver composes
MaxDepth == 2

(***************************************************************************)
(* f64 arithmetic, as exact rationals.                                     *)
(***************************************************************************)
Abs(x) == IF x < 0 THEN -x ELSE x

\* Each operator below takes the values of its operands once (a variable
\* bound over a singleton holds a value) and computes on the values.
RECURSIVE GCD(_, _)
GCD(a, b) ==
    CHOOSE g \in {IF bv = 0 THEN av ELSE GCD(bv, av % bv) : av \in {a}, bv \in {b}} : TRUE

Rat(n, d) ==
    CHOOSE r \in {<<((IF dv < 0 THEN -1 ELSE 1) * nv) \div g,
                    ((IF dv < 0 THEN -1 ELSE 1) * dv) \div g>> :
                      nv \in {n}, dv \in {d}, g \in {GCD(Abs(n), Abs(d))}} : TRUE

NaN == <<0, 0>>
Zero == <<0, 1>>
One == <<1, 1>>
FromInt(i) == <<i, 1>>
IsNaN(x) == x[2] = 0

\* sums and products are reduced before they are formed, to keep the
\* intermediate integers small
RAdd(x, y) ==
    CHOOSE r \in {IF IsNaN(xv) \/ IsNaN(yv) THEN NaN
                  ELSE LET g == GCD(xv[2], yv[2])
                       IN  Rat(xv[1] * (yv[2] \div g) + yv[1] * (xv[2] \div g),
                               (xv[2] \div g) * yv[2]) :
                      xv \in {x}, yv \in {y}} : TRUE
RNeg(x) == CHOOSE r \in {<<-xv[1], xv[2]>> : xv \in {x}} : TRUE
RSub(x, y) == RAdd(x, RNeg(y))
RMul(x, y) ==
    CHOOSE r \in {IF IsNaN(xv) \/ IsNaN(yv) THEN NaN
                  ELSE LET g1 == GCD(Abs(xv[1]), yv[2])
                           g2 == GCD(Abs(yv[1]), xv[2])
                       IN  Rat((xv[1] \div g1) * (yv[1] \div g2),
                               (xv[2] \div g2) * (yv[2] \div g1)) :
                      xv \in {x}, yv \in {y}} : TRUE
\* x / 0 is an infinity or NaN in f64; the model has one non-number
RDiv(x, y) ==
    CHOOSE r \in {IF IsNaN(xv) \/ IsNaN(yv) \/ yv[1] = 0 THEN NaN
                  ELSE RMul(xv, Rat(yv[2], yv[1])) :
                      xv \in {x}, yv \in {y}} : TRUE
RAbs(x) == <<Abs(x[1]), x[2]>>

(***************************************************************************)
(* Results: Result<T, PricerError>.                                        *)
(***************************************************************************)
Ok(v) == [ok |-> TRUE, val |-> v, err |-> <<>>]
Err(e) == [ok |-> FALSE, val |-> <<>>, err |-> e]

InvalidScenario(msg) == <<"InvalidScenario", msg>>
MissingCalculatorError(m) == <<"MissingCalculatorError", m>>
MissingMarketDataError(kind, ticker) == <<"MissingMarketDataError", kind, ticker>>
ShiftExecutionError(ins, msg) == <<"ShiftExecutionError", ins, msg>>
InfrastructureError(msg) == <<"InfrastructureError", msg>>
ShapeError(msg) == <<"ShapeError", msg>>

(***************************************************************************)
(* Instruments and measures.                                               *)
(***************************************************************************)
Stock(ticker) == <<"Stock", ticker>>
StockOption(underlying, strike, expiry, option_type) ==
    <<"Option", underlying, strike, expiry, option_type>>
IsStock(ins) == ins[1] = "Stock"
IsOption(ins) == ins[1] = "Option"

Measure ==
    {"Price", "Exposure", "UnderlyingPrice", "Vol", "Rate", "TimeToExpiry",
     "Delta", "Gamma"}

\* a policy that scales every measure: what position_scaling must not be
scale_every_measure(m) == "Linear"

InvalidMeasureError(s) == <<"InvalidMeasureError", s>>

\* the variant names of Measure, as the sequences of their characters
VariantName(m) ==
     CASE m = "Price" -> <<"P", "r", "i", "c", "e">>
      [] m = "Exposure" -> <<"E", "x", "p", "o", "s", "u", "r", "e">>
      [] m = "UnderlyingPrice" -> <<"U", "n", "d", "e", "r", "l", "y", "i", "n", "g", "P", "r", "i", "c", "e">>
      [] m = "Vol" -> <<"V", "o", "l">>
      [] m = "Rate" -> <<"R", "a", "t", "e">>
      [] m = "TimeToExpiry" -> <<"T", "i", "m", "e", "T", "o", "E", "x", "p", "i", "r", "y">>
      [] m = "Delta" -> <<"D", "e", "l", "t", "a">>
      [] m = "Gamma" -> <<"G", "a", "m", "m", "a">>

\* the lower-case letter of each capital that occurs in a variant name
Lower == "D" :> "d" @@ "E" :> "e" @@ "G" :> "g" @@ "P" :> "p" @@ "R" :> "r" @@ "T" :> "t" @@ "U" :> "u" @@ "V" :> "v"

\* the names as they are, without case conversion
as_written(name) == name

\* strum's snake_case: a capital becomes its lower-case letter, after an
\* underscore unless it is the first character
snake_case(name) ==
    LET RECURSIVE From(_)
        From(k) ==
            IF k > Len(name) THEN <<>>
            ELSE (IF name[k] \in DOMAIN Lower
                  THEN (IF k = 1 THEN <<>> ELSE <<"_">>) \o <<Lower[name[k]]>>
                  ELSE <<name[k]>>) \o From(k + 1)
    IN  From(1)

\* Display for Measure (serialize_all = "snake_case")
to_string(m) == snake_case(VariantName(m))

\* Measure::parse_measure: EnumString matches the serialized names exactly
parse_measure(s) ==
    IF \E m \in Measure : to_string(m) = s
    THEN Ok(CHOOSE m \in Measure : to_string(m) = s)
    ELSE Err(InvalidMeasureError(s))

position_scaling(m) ==
    CASE m = "Price" -> "NoScaling"
      [] m = "UnderlyingPrice" -> "NoScaling"
      [] m = "Vol" -> "NoScaling"
      [] m = "Rate" -> "NoScaling"
      [] m = "TimeToExpiry" -> "NoScaling"
      [] m = "Delta" -> "NoScaling"
      [] m = "Gamma" -> "NoScaling"
      [] m = "Exposure" -> "Linear"

Position(size, instrument) == [size |-> size, instrument |-> instrument]

\* PositionScaler::scale
scale(measure, position, v) ==
    LET scale_factor ==
            IF position_scaling(measure) = "NoScaling" THEN One ELSE position.size
    IN  RMul(scale_factor, v)

(***************************************************************************)
(* Transforms: filters, targets, shift items, builders.                    *)
(***************************************************************************)
Passthrough == <<"Passthrough">>
TickerFilter(t) == <<"TickerFilter", t>>
RiskFactorFilter(rf) == <<"RiskFactorFilter", rf>>

\* a filter whose ticker also matches an option on that ticker
accept_underlying(filter, instrument) ==
    CASE filter[1] = "TickerFilter" ->
            IF IsStock(instrument) THEN instrument[2] = filter[2]
            ELSE instrument[2][2] = filter[2]
      [] filter[1] = "Passthrough" -> TRUE
      [] filter[1] = "RiskFactorFilter" -> IsStock(instrument)

accept(filter, instrument) ==
    CASE filter[1] = "TickerFilter" ->
            IF IsStock(instrument) THEN instrument[2] = filter[2] ELSE FALSE
      [] filter[1] = "Passthrough" -> TRUE
      [] filter[1] = "RiskFactorFilter" -> IsStock(instrument)

SingleMeasureTarget(m) == <<"SingleMeasureTarget", m>>
MultiTarget(ms) == <<"MultiTarget", ms>>

is_target(target, m) ==
    IF target[1] = "SingleMeasureTarget" THEN target[2] = m ELSE m \in target[2]

ShiftItem(instrument_filter, shift_target, rel_shift, abs_shift) ==
    [instrument_filter |-> instrument_filter, shift_target |-> shift_target,
     rel_shift |-> rel_shift, abs_shift |-> abs_shift]

\* a definition built without comparing the lengths
ShiftDefinitionUnchecked(instrument_filter, rel_shifts, abs_shifts) ==
    Ok([instrument_filter |-> instrument_filter,
        rel_shifts |-> rel_shifts, abs_shifts |-> abs_shifts])

\* ShiftDefinition::new
ShiftDefinition(instrument_filter, rel_shifts, abs_shifts) ==
    IF Len(rel_shifts) # Len(abs_shifts)
    THEN Err(InvalidScenario("abs and rel shift lengths differ!"))
    ELSE Ok([instrument_filter |-> instrument_filter,
             rel_shifts |-> rel_shifts, abs_shifts |-> abs_shifts])

\* ShiftDefinition::len
shift_definition_len(sd) == Len(sd.rel_shifts)

\* TransformDefinition::len
transform_len(td) == shift_definition_len(td.shift_definition)

new_scalar_measure_transform(target, filter, abs_shift, rel_shift) ==
    LET shift_definition == ShiftDefinition(filter, <<rel_shift>>, <<abs_shift>>)
    IN  IF ~shift_definition.ok THEN shift_definition
        ELSE Ok([shift_target |-> SingleMeasureTarget(target),
                 shift_definition |-> shift_definition.val])

new_vector_measure_transform(target, filter, abs_shifts, rel_shifts) ==
    LET shift_definition == ShiftDefinition(filter, rel_shifts, abs_shifts)
    IN  IF ~shift_definition.ok THEN shift_definition
        ELSE Ok([shift_target |-> SingleMeasureTarget(target),
                 shift_definition |-> shift_definition.val])

\* an item that takes each shift from the other vector
shift_item_at_swapped(td, i) ==
    IF i >= shift_definition_len(td.shift_definition)
    THEN Err(InvalidScenario("accessing shift definition outside bounds"))
    ELSE Ok(ShiftItem(td.shift_definition.instrument_filter, td.shift_target,
                      td.shift_definition.abs_shifts[i + 1],
                      td.shift_definition.rel_shifts[i + 1]))

\* indices are 0-based, as in the code
shift_item_at(td, i) ==
    IF i >= shift_definition_len(td.shift_definition)
    THEN Err(InvalidScenario("accessing shift definition outside bounds"))
    ELSE LET abs_shift == td.shift_definition.abs_shifts[i + 1]
             rel_shift == td.shift_definition.rel_shifts[i + 1]
         IN  Ok(ShiftItem(td.shift_definition.instrument_filter, td.shift_target,
                          rel_shift, abs_shift))

(***************************************************************************)
(* Axes and the construction of stacked contexts.                          *)
(***************************************************************************)
Axis(axis_id, dim) == [axis_id |-> axis_id, dim |-> dim]
new_base_axis(dim) == Axis(0, dim)
\* an axis that keeps the parent's id: what new_from_parent must not be
new_beside_parent(parent_axis, dim) == Axis(parent_axis.axis_id, dim)
new_from_parent(parent_axis, dim) == Axis(parent_axis.axis_id + 1, dim)

\* Option<Arc<..>>: <<>> is None, <<p>> is Some(p)
None == <<>>
Some(x) == <<x>>
IsSome(o) == Len(o) = 1

\* StackedVectorizedPricingCtx::new
StackedNew(axis, base_ctx, parent, transform_def) ==
    LET parent_axes == IF IsSome(parent) THEN parent[1].axes ELSE <<>>
        axes == Append(parent_axes, axis)
        shape == [k \in 1..Len(axes) |-> axes[k].dim]
    IN  [axis |-> axis, base_ctx |-> base_ctx, parent |-> parent,
         transform_def |-> transform_def, axes |-> axes, shape |-> shape]

shift_base_ctx(ctx, transform_def) ==
    StackedNew(new_base_axis(transform_len(transform_def)), ctx, None, transform_def)

shift_vector_ctx(ctx, transform_def, alignment) ==
    LET axis == IF alignment = "Stacked" THEN ctx.axis
                ELSE new_from_parent(ctx.axis, transform_len(transform_def))
    IN  StackedNew(axis, ctx.base_ctx, Some(ctx), transform_def)

(***************************************************************************)
(* Lookup context and providers.  A provider map is a function whose       *)
(* domain is the set of tickers it has an entry for.                       *)
(***************************************************************************)
Get(map, key) == IF key \in DOMAIN map THEN Some(map[key]) ELSE None

\* LookupCtx::new_from_prices_and_vols
new_from_prices_and_vols(valuation_date, market_prices, vols) ==
    [kind |-> "LookupExecutor", vol_providers |-> vols,
     market_price_providers |-> market_prices, valuation_date |-> valuation_date]

\* ShiftedExecutor::new wrapped in PricingCtx::ShiftedExecutor
ShiftedExecutor(base_ctx, shifts) ==
    [kind |-> "ShiftedExecutor", base_ctx |-> base_ctx, shifts |-> shifts]

ProviderTicker(instrument) ==
    IF IsOption(instrument) THEN instrument[2][2] ELSE instrument[2]

RECURSIVE vol_provider(_, _)
vol_provider(ctx, instrument) ==
    IF ctx.kind = "LookupExecutor"
    THEN Get(ctx.vol_providers, ProviderTicker(instrument))
    ELSE vol_provider(ctx.base_ctx, instrument)

RECURSIVE market_price_provider(_, _)
market_price_provider(ctx, instrument) ==
    IF ctx.kind = "LookupExecutor"
    THEN Get(ctx.market_price_providers, ProviderTicker(instrument))
    ELSE market_price_provider(ctx.base_ctx, instrument)

\* the Lookup context always has a rate provider: FixedZeroRateProvider
RECURSIVE ir_provider(_, _)
ir_provider(ctx, instrument) ==
    IF ctx.kind = "LookupExecutor" THEN Some(Zero)
    ELSE ir_provider(ctx.base_ctx, instrument)

\* ... and a period provider: FixedValuationDatePeriodProvider(valuation_date)
RECURSIVE period_provider(_, _)
period_provider(ctx, instrument) ==
    IF ctx.kind = "LookupExecutor" THEN Some(ctx.valuation_date)
    ELSE period_provider(ctx.base_ctx, instrument)

DaysPerYear == 365

\* dates are day numbers
period_in_year(valuation_date, dt) == Ok(Rat(dt - valuation_date, DaysPerYear))

(***************************************************************************)
(* Black-Scholes kernel (stand-in, see the head of the module).            *)
(***************************************************************************)
call_price(pars) ==
    RAdd(RSub(pars.spot, pars.strike),
         RAdd(RMul(RMul(pars.vol, pars.tte), pars.spot),
              RMul(RMul(pars.r, pars.tte), pars.strike)))

put_price(pars) ==
    RSub(RAdd(RSub(pars.strike, pars.spot),
              RMul(RMul(pars.vol, pars.tte), pars.spot)),
         RMul(RMul(pars.r, pars.tte), pars.strike))

BlackScholesParams(spot, strike, tte, r, vol) ==
    [spot |-> spot, strike |-> strike, tte |-> tte, r |-> r, vol |-> vol]

black_scholes(pars, option_type) ==
    IF option_type = "Call" THEN Ok(call_price(pars)) ELSE Ok(put_price(pars))

(***************************************************************************)
(* Shift processing.                                                       *)
(***************************************************************************)
\* the loop of ShiftedExecutor::process over self.shifts, from item k on
RECURSIVE ApplyShifts(_, _, _, _, _)
\* the loop with rel_shift as the factor itself: what (1.0 + rel_shift) prevents
RECURSIVE ApplyFactors(_, _, _, _, _)
ApplyFactors(shifts, measure, instrument, v, k) ==
    IF k > Len(shifts) THEN v
    ELSE ApplyFactors(shifts, measure, instrument,
                      IF is_target(shifts[k].shift_target, measure)
                         /\ accept(shifts[k].instrument_filter, instrument)
                      THEN RAdd(RMul(shifts[k].rel_shift, v), shifts[k].abs_shift)
                      ELSE v,
                      k + 1)

ApplyShifts(shifts, measure, instrument, v, k) ==
    IF k > Len(shifts) THEN v
    ELSE LET si == shifts[k]
             v2 == IF is_target(si.shift_target, measure)
                      /\ accept(si.instrument_filter, instrument)
                   THEN RAdd(RMul(RAdd(One, si.rel_shift), v), si.abs_shift)
                   ELSE v
         IN  ApplyShifts(shifts, measure, instrument, v2, k + 1)

RECURSIVE process_shifts(_, _, _, _)
\* the loop of ShiftedExecutor::process, on the base context's result
ProcessItems(se, measure, instrument, b) ==
    IF b.ok THEN Ok(ApplyShifts(se.shifts, measure, instrument, b.val, 1)) ELSE b

\* a process that walks its own items only
process_own_items(se, measure, instrument, v) ==
    ProcessItems(se, measure, instrument, Ok(v))

\* ShiftedExecutor::process
process(se, measure, instrument, v) ==
    ProcessItems(se, measure, instrument,
                 process_shifts(se.base_ctx, measure, instrument, v))

\* PricingCtx::process_shifts
process_shifts(ctx, measure, instrument, v) ==
    IF ctx.kind = "LookupExecutor" THEN Ok(v)
    ELSE process(ctx, measure, instrument, v)

(***************************************************************************)
(* Tensor coordinates.  A VectorResult is [shape, arr] with arr the        *)
(* elements in row-major (logical) order, which is the order in which      *)
(* indexed_iter_mut visits them.  Linear indices and coordinates are       *)
(* 0-based.                                                                *)
(***************************************************************************)
RECURSIVE Product(_, _)
Product(shape, k) == IF k > Len(shape) THEN 1 ELSE shape[k] * Product(shape, k + 1)

Size(shape) == Product(shape, 1)

\* the coordinate when the first axis runs fastest
UnravelFirstFastest(shape, n) ==
    [a \in 1..Len(shape) |-> (n \div Size(SubSeq(shape, 1, a - 1))) % shape[a]]

\* coordinate of the element with linear index n
Unravel(shape, n) ==
    [a \in 1..Len(shape) |-> (n \div Product(shape, a + 1)) % shape[a]]

RECURSIVE Ravel(_, _, _)
Ravel(shape, coord, a) ==
    IF a > Len(shape) THEN 0
    ELSE coord[a] * Product(shape, a + 1) + Ravel(shape, coord, a + 1)

from_elem(shape, v) == [shape |-> shape, arr |-> [n \in 1..Size(shape) |-> v]]

VectorAt(vr, coord) == vr.arr[Ravel(vr.shape, coord, 1) + 1]

(***************************************************************************)
(* Measure evaluation: PricingCtx::price, the dispatcher, the calculators  *)
(* and the tensor loop of the stacked context, which call each other.      *)
(* Where a function goes on after a fallible call (r?), the rest of the    *)
(* function is an operator of its own that takes the call's result.        *)
(***************************************************************************)
RECURSIVE price(_, _, _)
RECURSIVE dispatch_measure(_, _, _)
RECURSIVE PriceLoop(_, _, _, _, _, _, _, _)

\* StackedVectorizedPricingCtx::fill_ctx_vec / ctx_vec: root first, self last
RECURSIVE ctx_vec(_)
\* the chain with self first and the root last
RECURSIVE ctx_vec_self_first(_)
ctx_vec_self_first(self) ==
    IF IsSome(self.parent) THEN <<self>> \o ctx_vec_self_first(self.parent[1])
    ELSE <<self>>

ctx_vec(self) ==
    IF IsSome(self.parent) THEN Append(ctx_vec(self.parent[1]), self) ELSE <<self>>

\* fill_shift_item_vec, from context k of ctxs on; v is the list so far
RECURSIVE fill_shift_item_vec(_, _, _, _, _)
\* the items of every context, whatever its axis: what the axis test prevents
fill_every_ctx(ctxs, ax, i, v, k) ==
    IF \A n \in k..Len(ctxs) : shift_item_at(ctxs[n].transform_def, i).ok
    THEN Ok(v \o [n \in 1..(Len(ctxs) - k + 1) |->
                     shift_item_at(ctxs[n + k - 1].transform_def, i).val])
    ELSE Err(InvalidScenario("accessing shift definition outside bounds"))


\* let si = ...shift_item_at(i)?; v.push(si)
PushShiftItem(ctxs, ax, i, v, k, si) ==
    IF si.ok THEN fill_shift_item_vec(ctxs, ax, i, Append(v, si.val), k + 1) ELSE si

fill_shift_item_vec(ctxs, ax, i, v, k) ==
    IF k > Len(ctxs) THEN Ok(v)
    ELSE IF ax = ctxs[k].axis
         THEN PushShiftItem(ctxs, ax, i, v, k, shift_item_at(ctxs[k].transform_def, i))
         ELSE fill_shift_item_vec(ctxs, ax, i, v, k + 1)

\* the inner loop of price over self.axes().zip(coord), from axis a on
RECURSIVE CoordShifts(_, _, _, _, _)
NextAxis(axes, ctxv, coord, a, r) ==
    IF r.ok THEN CoordShifts(axes, ctxv, coord, r.val, a + 1) ELSE r

CoordShifts(axes, ctxv, coord, shifts, a) ==
    IF a > Len(axes) \/ a > Len(coord) THEN Ok(shifts)
    ELSE NextAxis(axes, ctxv, coord, a,
                  fill_shift_item_vec(ctxv, axes[a], coord[a], shifts, 1))

\* sliced_ctx.price(measure, instrument) on the executor carrying shifts
SlicedPrice(self, measure, instrument, shifts) ==
    IF shifts.ok
    THEN price(ShiftedExecutor(self.base_ctx, shifts.val), measure, instrument)
    ELSE shifts

\* the body of the outer loop for one coordinate
PriceAt(self, ctxv, measure, instrument, coord) ==
    SlicedPrice(self, measure, instrument, CoordShifts(self.axes, ctxv, coord, <<>>, 1))

(* The outer loop of StackedVectorizedPricingCtx::price, from the element  *)
(* with linear index n on.  res is the tensor so far.  visited and written *)
(* record, for the properties, the coordinates whose evaluation was        *)
(* started and those whose element was assigned.                           *)
LoopReturn(r, visited, written) ==
    [ok |-> r.ok, val |-> r.val, err |-> r.err, visited |-> visited, written |-> written]

\* a step that leaves the element as it is on an error and goes on
LoopStepSkip(self, ctxv, measure, instrument, n, res, visited, written, coord, x) ==
    PriceLoop(self, ctxv, measure, instrument, n + 1,
              IF x.ok THEN [res EXCEPT !.arr[n + 1] = x.val] ELSE res,
              Append(visited, coord),
              IF x.ok THEN Append(written, coord) ELSE written)

\* *v = x, or the early return of the error
LoopStep(self, ctxv, measure, instrument, n, res, visited, written, coord, x) ==
    IF x.ok
    THEN PriceLoop(self, ctxv, measure, instrument, n + 1,
                   [res EXCEPT !.arr[n + 1] = x.val],
                   Append(visited, coord), Append(written, coord))
    ELSE LoopReturn(x, Append(visited, coord), written)

PriceLoop(self, ctxv, measure, instrument, n, res, visited, written) ==
    IF n >= Size(self.shape) THEN LoopReturn(Ok(res), visited, written)
    ELSE LoopStep(self, ctxv, measure, instrument, n, res, visited, written,
                  Unravel(self.shape, n),
                  PriceAt(self, ctxv, measure, instrument, Unravel(self.shape, n)))

\* StackedVectorizedPricingCtx::price, with the record of the loop
price_run(self, measure, instrument) ==
    PriceLoop(self, ctx_vec(self), measure, instrument, 0,
              from_elem(self.shape, NaN), <<>>, <<>>)

PlainResult(r) == [ok |-> r.ok, val |-> r.val, err |-> r.err]

\* StackedVectorizedPricingCtx::price: Result<VectorResult, PricerError>
stacked_price(self, measure, instrument) ==
    PlainResult(price_run(self, measure, instrument))

\* mapv_inplace(|v| position_scaler.scale(v))
ScaleAll(measure, position, vectorres) ==
    IF vectorres.ok
    THEN Ok([vectorres.val EXCEPT
                !.arr = [n \in 1..Len(vectorres.val.arr) |->
                            scale(measure, position, vectorres.val.arr[n])]])
    ELSE vectorres

\* StackedVectorizedPricingCtx::price_position
stacked_price_position(self, measure, position) ==
    ScaleAll(measure, position, stacked_price(self, measure, position.instrument))

\* Ok(position_scaler.scale(v))
ScaleOne(measure, position, v) ==
    IF v.ok THEN Ok(scale(measure, position, v.val)) ELSE v

\* PricingCtx::price_position
price_position(ctx, measure, position) ==
    ScaleOne(measure, position, price(ctx, measure, position.instrument))

\* self.process_shifts(measure, instrument, v)
\* shift processing of the values of stocks only
ProcessStocksOnly(ctx, measure, instrument, v) ==
    IF v.ok /\ IsStock(instrument) THEN process_shifts(ctx, measure, instrument, v.val)
    ELSE v

ProcessDispatched(ctx, measure, instrument, v) ==
    IF v.ok THEN process_shifts(ctx, measure, instrument, v.val) ELSE v

\* PricingCtx::price
price(ctx, measure, instrument) ==
    ProcessDispatched(ctx, measure, instrument,
                      dispatch_measure(ctx, measure, instrument))

(***************************************************************************)
(* Stock calculator.  A calculator returns Ok(Some(v)), Ok(None) for 'not  *)
(* handled', or an error.                                                  *)
(***************************************************************************)
\* Ok(Some(r?))
Handled(r) == IF r.ok THEN Ok(Some(r.val)) ELSE r

\* if let Some(p) = provider { Ok(p) } else { Err(e) }
ProviderOr(provider, e) == IF IsSome(provider) THEN Ok(provider[1]) ELSE Err(e)

price_stock_price(ctx, stock) ==
    ProviderOr(market_price_provider(ctx, stock),
               MissingMarketDataError("Price", stock[2]))

\* a stock calculator that also takes UnderlyingPrice, as the stock's Price
price_stock_underlying(ctx, measure, stock) ==
    CASE measure \in {"Price", "UnderlyingPrice"} -> Handled(price_stock_price(ctx, stock))
      [] measure = "Exposure" -> Handled(price(ctx, "Price", stock))
      [] OTHER -> Ok(None)

price_stock(ctx, measure, stock) ==
    CASE measure = "Price" -> Handled(price_stock_price(ctx, stock))
      [] measure = "Exposure" -> Handled(price(ctx, "Price", stock))
      [] OTHER -> Ok(None)

(***************************************************************************)
(* Option calculator.                                                      *)
(***************************************************************************)
\* the four sub-measures in the order the code evaluates them, then the kernel
KernelPrice(option, undprice, rate, vol, tte) ==
    IF ~undprice.ok THEN undprice
    ELSE IF ~rate.ok THEN rate
    ELSE IF ~vol.ok THEN vol
    ELSE IF ~tte.ok THEN tte
    ELSE black_scholes(
             BlackScholesParams(undprice.val, option[3], tte.val, rate.val, vol.val),
             option[5])

price_option_price(ctx, option) ==
    KernelPrice(option, price(ctx, "UnderlyingPrice", option),
                price(ctx, "Rate", option), price(ctx, "Vol", option),
                price(ctx, "TimeToExpiry", option))

\* an underlying price read from the provider, not priced through the context
underlying_spot(ctx, option) == price_stock_price(ctx, option[2])

price_option_underlying_price(ctx, option) == price(ctx, "Price", option[2])

\* an exposure that is the underlying price alone
ExposureOfUnderlying(uprice, delta) ==
    IF ~uprice.ok THEN uprice
    ELSE IF ~delta.ok THEN delta
    ELSE Ok(uprice.val)

ExposureOf(uprice, delta) ==
    IF ~uprice.ok THEN uprice
    ELSE IF ~delta.ok THEN delta
    ELSE Ok(RMul(uprice.val, delta.val))

price_option_exposure(ctx, option) ==
    ExposureOf(price(ctx, "UnderlyingPrice", option), price(ctx, "Delta", option))

\* a Vol that evaluates the spot before it looks for the vol provider
VolOfSpotFirst(vp, spot, tte) ==
    IF ~spot.ok THEN spot
    ELSE IF ~vp.ok THEN vp
    ELSE IF ~tte.ok THEN tte
    ELSE Ok(vp.val)

\* FixedVolSurface::eval ignores spot, strike and tte
VolOf(vp, spot, tte) ==
    IF ~vp.ok THEN vp
    ELSE IF ~spot.ok THEN spot
    ELSE IF ~tte.ok THEN tte
    ELSE Ok(vp.val)

price_option_vol(ctx, option) ==
    VolOf(ProviderOr(vol_provider(ctx, option),
                     InfrastructureError("No vol provider found")),
          price(ctx, "UnderlyingPrice", option), price(ctx, "TimeToExpiry", option))

price_option_rate(ctx, option) ==
    ProviderOr(ir_provider(ctx, option), InfrastructureError("No rate provider found"))

PeriodOf(dtp, expiry) == IF dtp.ok THEN period_in_year(dtp.val, expiry) ELSE dtp

price_option_tte(ctx, option) ==
    PeriodOf(ProviderOr(period_provider(ctx, option),
                        InfrastructureError("No perdio provider found")),
             option[4])

price_option(ctx, measure, option) ==
    CASE measure = "Price" -> Handled(price_option_price(ctx, option))
      [] measure = "Exposure" -> Handled(price_option_exposure(ctx, option))
      [] measure = "UnderlyingPrice" ->
            Handled(price_option_underlying_price(ctx, option))
      [] measure = "Vol" -> Handled(price_option_vol(ctx, option))
      [] measure = "Rate" -> Handled(price_option_rate(ctx, option))
      [] measure = "TimeToExpiry" -> Handled(price_option_tte(ctx, option))
      [] OTHER -> Ok(None)

(***************************************************************************)
(* Generic finite-difference greeks.                                       *)
(***************************************************************************)
\* the bump of the three-point ladder: 0.01
Bump == Rat(1, 100)

\* f64::abs(x) < f64::EPSILON.  Every non-zero number of the model has a
\* denominator below 2^31, hence a magnitude above EPSILON = 2^-52.
LtEpsilon(x) == ~IsNaN(x) /\ x[1] = 0

\* a ladder put on the Lookup context at the root of ctx, under its shifts
LadderPriceOnRoot(ctx, instrument, transform_def) ==
    LET RECURSIVE Root(_)
        Root(c) == IF c.kind = "LookupExecutor" THEN c ELSE Root(c.base_ctx)
    IN  IF transform_def.ok
        THEN stacked_price(shift_base_ctx(Root(ctx), transform_def.val),
                           "Price", instrument)
        ELSE transform_def

LadderPrice(ctx, instrument, transform_def) ==
    IF transform_def.ok
    THEN stacked_price(shift_base_ctx(ctx, transform_def.val), "Price", instrument)
    ELSE transform_def

\* the three-point context and its prices, shared by delta and gamma
EquityLadder(ctx, instrument) ==
    LadderPrice(ctx, instrument,
                new_vector_measure_transform("Price", RiskFactorFilter("Equity"),
                                             <<Zero, Zero, Zero>>,
                                             <<RNeg(Bump), Zero, Bump>>))

\* VectorResult::resultview_1d
resultview_1d(vr) ==
    IF Len(vr.shape) = 1 THEN Ok(vr.arr) ELSE Err(ShapeError("vector result is not 1d"))

\* a delta whose step is the bump itself, not the bump times the price
DeltaOfUnitStep(instrument, vdown, v, vup) ==
    IF v = Zero
    THEN IF LtEpsilon(RAbs(RSub(vup, vdown))) THEN Ok(Zero)
         ELSE Err(ShiftExecutionError(instrument, "zero price in relshift"))
    ELSE Ok(RDiv(RSub(vup, vdown), RMul(FromInt(2), Bump)))

\* a delta that answers 0 whenever the price is zero
DeltaOfZeroIsFlat(instrument, vdown, v, vup) ==
    IF v = Zero THEN Ok(Zero)
    ELSE Ok(RDiv(RSub(vup, vdown), RMul(FromInt(2), RMul(v, Bump))))

DeltaOf(instrument, vdown, v, vup) ==
    IF v = Zero
    THEN IF LtEpsilon(RAbs(RSub(vup, vdown))) THEN Ok(Zero)
         ELSE Err(ShiftExecutionError(instrument, "zero price in relshift"))
    ELSE Ok(RDiv(RSub(vup, vdown), RMul(FromInt(2), RMul(v, Bump))))

\* x / (v * h).powi(2), as (x / (v * h)) / (v * h)
GammaOf(instrument, vdown, v, vup) ==
    IF v = Zero
    THEN IF LtEpsilon(RAbs(RSub(vup, vdown))) THEN Ok(Zero)
         ELSE Err(ShiftExecutionError(instrument, "zero price in relshift"))
    ELSE Ok(RDiv(RDiv(RAdd(RSub(vup, RMul(FromInt(2), v)), vdown), RMul(v, Bump)),
                 RMul(v, Bump)))

\* if let Some([vdown, v, vup]) = vres.resultview_1d()?.as_slice()
DeltaSlice(instrument, vres) ==
    IF ~vres.ok THEN vres
    ELSE IF ~resultview_1d(vres.val).ok THEN resultview_1d(vres.val)
    ELSE IF Len(vres.val.arr) = 3
    THEN DeltaOf(instrument, vres.val.arr[1], vres.val.arr[2], vres.val.arr[3])
    ELSE Err(ShiftExecutionError(instrument, "unknown scenario dimension"))

GammaSlice(instrument, vres) ==
    IF ~vres.ok THEN vres
    ELSE IF ~resultview_1d(vres.val).ok THEN resultview_1d(vres.val)
    ELSE IF Len(vres.val.arr) = 3
    THEN GammaOf(instrument, vres.val.arr[1], vres.val.arr[2], vres.val.arr[3])
    ELSE Err(ShiftExecutionError(instrument, "unknown scenario dimension"))

price_equity_delta(ctx, instrument) ==
    DeltaSlice(instrument, EquityLadder(ctx, instrument))

price_equity_gamma(ctx, instrument) ==
    GammaSlice(instrument, EquityLadder(ctx, instrument))

price_generic(ctx, measure, instrument) ==
    CASE measure = "Delta" -> price_equity_delta(ctx, instrument)
      [] measure = "Gamma" -> price_equity_gamma(ctx, instrument)
      [] OTHER -> Err(MissingCalculatorError(measure))

(***************************************************************************)
(* Dispatcher.                                                             *)
(***************************************************************************)
\* a dispatcher that also goes to the generic calculator after an error
OrGenericAfterError(ctx, measure, instrument, m) ==
    IF m.ok /\ IsSome(m.val) THEN Ok(m.val[1])
    ELSE price_generic(ctx, measure, instrument)

\* if let Some(pr) = m { Ok(pr) } else { price_generic(..) }
OrGeneric(ctx, measure, instrument, m) ==
    IF ~m.ok THEN m
    ELSE IF IsSome(m.val) THEN Ok(m.val[1])
    ELSE price_generic(ctx, measure, instrument)

dispatch_measure(ctx, measure, instrument) ==
    OrGeneric(ctx, measure, instrument,
              IF IsOption(instrument) THEN price_option(ctx, measure, instrument)
              ELSE price_stock(ctx, measure, instrument))

(***************************************************************************)
(* The driver: what a caller of the crate does with it.  It builds a       *)
(* Lookup context from a market observation, prices on it, composes a      *)
(* scenario (a transform, then shift_base_ctx or shift_vector_ctx, which   *)
(* takes the transform by value), and prices on the stacked context.       *)
(***************************************************************************)
VARIABLES
    ctx,        \* Arc<PricingCtx>: the Lookup context
    td,         \* Option<Result<TransformDefinition>>: the builder's last result
    args,       \* Option<..>: the builder call that returned td
    vctx,       \* Option<Arc<StackedVectorizedPricingCtx>>: the scenario so far
    alignments, \* how each context of vctx's chain was made, root first
    res,        \* Option<..>: the last pricing call and what it returned
    call,       \* Option<..>: the last call of another function of the crate
    portfolio,  \* Portfolio: trade_id_counter, positions, position_ids
    par         \* Option<..>: the price_portfolio_scenario call in progress

vars == <<ctx, td, args, vctx, alignments, res, call, portfolio, par>>

\* what the calls on the contexts leave alone
aside == <<call, portfolio, par>>

\* Portfolio::new
PortfolioNew == [trade_id_counter |-> 0, positions |-> <<>>, position_ids |-> <<>>]

AAPL == "AAPL"
MSFT == "MSFT"

\* one ticker observed with spot and vol, or with spot only
MarketObservations ==
    {[market_prices |-> (AAPL :> FromInt(10)), vols |-> (AAPL :> Rat(1, 2))],
     [market_prices |-> (AAPL :> FromInt(10)), vols |-> <<>>]}

ValuationDate == 0
Expiry == 365

AaplCall == StockOption(Stock(AAPL), FromInt(10), Expiry, "Call")
AaplPut == StockOption(Stock(AAPL), FromInt(9), Expiry, "Put")
Instruments == {Stock(AAPL), Stock(MSFT), AaplCall, AaplPut}
Sizes == {FromInt(3), FromInt(-2)}
Positions == {Position(s, i) : s \in Sizes, i \in Instruments}

\* what a scenario shifts: every price, or every vol
Shifted ==
    {[target |-> "Price", filter |-> Passthrough],
     [target |-> "Vol", filter |-> Passthrough]}

\* shift vectors: all zero at every length, and the ladder -1/2, 0, 1/2, ...
ZeroVec(n) == [i \in 1..n |-> Zero]
LadderVec(n) == [i \in 1..n |-> Rat(i - 2, 2)]
ZeroVectors == {ZeroVec(n) : n \in 0..MaxLen}
ShiftVectors == ZeroVectors \cup {LadderVec(MaxLen)}
ShiftValues == {One}

RECURSIVE Depth(_)
Depth(c) == IF IsSome(c.parent) THEN 1 + Depth(c.parent[1]) ELSE 1

Init ==
    /\ \E mo \in MarketObservations :
           ctx = new_from_prices_and_vols(ValuationDate, mo.market_prices, mo.vols)
    /\ td = None
    /\ args = None
    /\ vctx = None
    /\ alignments = <<>>
    /\ res = None
    /\ call = None
    /\ portfolio = PortfolioNew
    /\ par = None

\* no transform is pending (none was built, or the builder failed) and the
\* scenario takes another one
NoTransform ==
    /\ IF IsSome(td) THEN ~td[1].ok ELSE TRUE
    /\ IF IsSome(vctx) THEN Depth(vctx[1]) < MaxDepth ELSE TRUE

NewVectorMeasureTransform ==
    /\ NoTransform
    /\ \E s \in Shifted, abs_shifts \in ZeroVectors, rel_shifts \in ShiftVectors :
           /\ td' = Some(new_vector_measure_transform(s.target, s.filter,
                                                      abs_shifts, rel_shifts))
           /\ args' = Some([builder |-> "new_vector_measure_transform",
                            target |-> s.target, filter |-> s.filter,
                            abs_shifts |-> abs_shifts, rel_shifts |-> rel_shifts])
    /\ res' = None
    /\ UNCHANGED <<ctx, vctx, alignments>>
    /\ UNCHANGED aside

NewScalarMeasureTransform ==
    /\ NoTransform
    /\ \E s \in Shifted, abs_shift \in ShiftValues, rel_shift \in ShiftValues :
           /\ td' = Some(new_scalar_measure_transform(s.target, s.filter,
                                                      abs_shift, rel_shift))
           /\ args' = Some([builder |-> "new_scalar_measure_transform",
                            target |-> s.target, filter |-> s.filter,
                            abs_shifts |-> <<abs_shift>>, rel_shifts |-> <<rel_shift>>])
    /\ res' = None
    /\ UNCHANGED <<ctx, vctx, alignments>>
    /\ UNCHANGED aside

ShiftBaseCtx ==
    /\ IsSome(td) /\ td[1].ok
    /\ vctx = None
    /\ vctx' = Some(shift_base_ctx(ctx, td[1].val))
    /\ alignments' = <<"Base">>
    /\ td' = None
    /\ args' = None
    /\ res' = None
    /\ UNCHANGED ctx
    /\ UNCHANGED aside

ShiftVectorCtx ==
    /\ IsSome(td) /\ td[1].ok
    /\ IsSome(vctx) /\ Depth(vctx[1]) < MaxDepth
    /\ \E alignment \in {"Stacked", "Orthogonal"} :
           /\ vctx' = Some(shift_vector_ctx(vctx[1], td[1].val, alignment))
           /\ alignments' = Append(alignments, alignment)
    /\ td' = None
    /\ args' = None
    /\ res' = None
    /\ UNCHANGED ctx
    /\ UNCHANGED aside

\* PricingCtx::price_position on the Lookup context
CtxPricePosition ==
    /\ td = None /\ vctx = None
    /\ res = None
    /\ \E measure \in Measure, position \in Positions :
           res' = Some([op |-> "ctx_price_position", measure |-> measure,
                        position |-> position,
                        out |-> price_position(ctx, measure, position),
                        visited |-> <<>>, written |-> <<>>])
    /\ UNCHANGED <<ctx, td, args, vctx, alignments>>
    /\ UNCHANGED aside

PriceCall(measure, instrument, r) ==
    [op |-> "price", measure |-> measure, position |-> Position(One, instrument),
     out |-> PlainResult(r), visited |-> r.visited, written |-> r.written]

\* StackedVectorizedPricingCtx::price
StackedPrice ==
    /\ td = None /\ IsSome(vctx)
    /\ res = None
    /\ \E measure \in Measure, instrument \in Instruments :
           res' = Some(PriceCall(measure, instrument,
                                 price_run(vctx[1], measure, instrument)))
    /\ UNCHANGED <<ctx, td, args, vctx, alignments>>
    /\ UNCHANGED aside

\* StackedVectorizedPricingCtx::price_position
StackedPricePosition ==
    /\ td = None /\ IsSome(vctx)
    /\ res = None
    /\ \E measure \in Measure, position \in Positions :
           res' = Some([op |-> "price_position", measure |-> measure,
                        position |-> position,
                        out |-> stacked_price_position(vctx[1], measure, position),
                        visited |-> <<>>, written |-> <<>>])
    /\ UNCHANGED <<ctx, td, args, vctx, alignments>>
    /\ UNCHANGED aside

Next ==
    \/ NewVectorMeasureTransform
    \/ NewScalarMeasureTransform
    \/ ShiftBaseCtx
    \/ ShiftVectorCtx
    \/ CtxPricePosition
    \/ StackedPrice
    \/ StackedPricePosition

Spec == Init /\ [][Next]_vars

(***************************************************************************)
(* The functions of the crate called on their own, with arguments drawn    *)
(* from small sets.  call holds the last call: its function, its arguments *)
(* and what it returned.                                                   *)
(***************************************************************************)
AllFilters == {Passthrough, TickerFilter(AAPL), TickerFilter(MSFT), RiskFactorFilter("Equity")}

\* abs vectors 1, 2, .. and rel vectors -1/2, 0, 1/2, .. of every length
CountVec(n) == [i \in 1..n |-> FromInt(i)]
AbsVectors == {CountVec(n) : n \in 0..MaxLen}
RelVectors == {LadderVec(n) : n \in 0..MaxLen}

\* the arguments of a builder call that succeeds
BuilderCalls ==
    {[builder |-> "new_vector_measure_transform", target |-> t, filter |-> f,
      abs_shifts |-> CountVec(n), rel_shifts |-> LadderVec(n)] :
        t \in {"Price", "Vol"}, f \in AllFilters, n \in 0..MaxLen}
    \cup
    {[builder |-> "new_scalar_measure_transform", target |-> t, filter |-> f,
      abs_shifts |-> <<One>>, rel_shifts |-> <<Rat(1, 2)>>] :
        t \in {"Price", "Vol"}, f \in AllFilters}

\* the transform the builder call returns
Built(b) ==
    IF b.builder = "new_vector_measure_transform"
    THEN new_vector_measure_transform(b.target, b.filter, b.abs_shifts, b.rel_shifts)
    ELSE new_scalar_measure_transform(b.target, b.filter, b.abs_shifts[1], b.rel_shifts[1])

\* TransformDefinition::shift_item_at on a transform fresh from its builder
ShiftItemAt ==
    /\ call = None
    /\ \E b \in BuilderCalls, i \in 0..MaxLen :
           /\ Built(b).ok
           /\ call' = Some([fn |-> "shift_item_at", built |-> b, i |-> i,
                            out |-> shift_item_at(Built(b).val, i)])
    /\ UNCHANGED <<ctx, td, args, vctx, alignments, res, portfolio, par>>

\* InstrumentFilter::accept
Accept ==
    /\ call = None
    /\ \E filter \in AllFilters, instrument \in Instruments :
           call' = Some([fn |-> "accept", filter |-> filter, instrument |-> instrument,
                         out |-> accept(filter, instrument)])
    /\ UNCHANGED <<ctx, td, args, vctx, alignments, res, portfolio, par>>

\* single targets, and multi targets of at most two measures
AllTargets ==
    {SingleMeasureTarget(m) : m \in Measure}
    \cup {MultiTarget(ms) : ms \in {x \in SUBSET Measure : Cardinality(x) <= 2}}

\* ShiftTarget::is_target
IsTarget ==
    /\ call = None
    /\ \E target \in AllTargets, m \in Measure :
           call' = Some([fn |-> "is_target", target |-> target, m |-> m,
                         out |-> is_target(target, m)])
    /\ UNCHANGED <<ctx, td, args, vctx, alignments, res, portfolio, par>>

\* strings that are no serialized measure: a variant name as written, an
\* upper-case name, a name with a blank, an unknown name, the empty string
OtherStrings ==
    {VariantName("Price"), VariantName("TimeToExpiry"),
     <<"P", "R", "I", "C", "E">>, <<"t", "i", "m", "e", " ", "t", "o">>,
     <<"t", "h", "e", "t", "a">>, <<"v", "o", "l", "_">>, <<>>}

\* Measure::parse_measure
ParseMeasure ==
    /\ call = None
    /\ \E s \in OtherStrings \cup {to_string(m) : m \in Measure} :
           call' = Some([fn |-> "parse_measure", s |-> s, out |-> parse_measure(s)])
    /\ UNCHANGED <<ctx, td, args, vctx, alignments, res, portfolio, par>>

\* to_string, then parse_measure of the string
MeasureRoundtrip ==
    /\ call = None
    /\ \E m \in Measure :
           call' = Some([fn |-> "to_string", m |-> m, s |-> to_string(m),
                         out |-> parse_measure(to_string(m))])
    /\ UNCHANGED <<ctx, td, args, vctx, alignments, res, portfolio, par>>

\* Lookup contexts over one ticker: spot 0, 10 or 105, with or without a vol
LookupContexts ==
    {new_from_prices_and_vols(ValuationDate, AAPL :> FromInt(p), vols) :
         p \in {0, 10, 105}, vols \in {AAPL :> Rat(1, 2), <<>>}}

\* a call that the kernel prices at exactly zero at spot 10 and vol 1/2
ZeroCall == StockOption(Stock(AAPL), FromInt(15), Expiry, "Call")

\* PricingCtx::price on a Lookup context, also for a call on the ticker
\* that is not observed
CtxPrice ==
    /\ call = None
    /\ \E c \in LookupContexts, measure \in Measure,
          instrument \in Instruments
              \cup {ZeroCall, StockOption(Stock(MSFT), FromInt(10), Expiry, "Call")} :
           call' = Some([fn |-> "price", ctx |-> c, measure |-> measure,
                         instrument |-> instrument,
                         out |-> price(c, measure, instrument)])
    /\ UNCHANGED <<ctx, td, args, vctx, alignments, res, portfolio, par>>

\* StackedVectorizedPricingCtx::price on a scenario over the Lookup contexts
\* at spot 10: a first transform of two items (no shift; rel 1/2 and abs 1)
\* for any of four targets and any filter, alone or under an orthogonal
\* second transform that halves every Price
ScenarioPrice ==
    /\ call = None
    /\ \E c \in {l \in LookupContexts : l.market_price_providers[AAPL] = FromInt(10)},
          target \in {"Price", "UnderlyingPrice", "Vol", "Delta"},
          filter \in AllFilters, second \in BOOLEAN,
          measure \in Measure, instrument \in Instruments :
           LET first == shift_base_ctx(
                            c, new_vector_measure_transform(
                                   target, filter, <<Zero, One>>,
                                   <<Zero, Rat(1, 2)>>).val)
               v == IF second
                    THEN shift_vector_ctx(
                             first,
                             new_vector_measure_transform(
                                 "Price", Passthrough, <<Zero, Zero>>,
                                 <<Zero, Rat(-1, 2)>>).val,
                             "Orthogonal")
                    ELSE first
           IN  call' = Some([fn |-> "stacked_price", vctx |-> v,
                             measure |-> measure, instrument |-> instrument,
                             run |-> price_run(v, measure, instrument),
                             out |-> stacked_price(v, measure, instrument)])
    /\ UNCHANGED <<ctx, td, args, vctx, alignments, res, portfolio, par>>

NextCalls ==
    \/ ShiftItemAt
    \/ ScenarioPrice
    \/ CtxPrice
    \/ ParseMeasure
    \/ MeasureRoundtrip
    \/ Accept
    \/ IsTarget

SpecCalls == Init /\ [][NextCalls]_vars

(***************************************************************************)
(* The portfolio and PricingEngine::price_portfolio_scenario.  The         *)
(* positions are priced by a data-parallel fold: the ordered list of       *)
(* positions is split into contiguous chunks, a worker folds each chunk    *)
(* into a vector of tensors, adjacent vectors are joined as their workers  *)
(* finish, and the joined vector is stacked along a new leading axis.      *)
(***************************************************************************)
MaxTrades == 3

PyRuntimeError(msg) == <<"PyRuntimeError", msg>>

\* From<CorePricerError> for PyErr
PyErrFrom(e) == <<"PyCorePricerError", e>>

\* Portfolio::gen_trade_id: ticker, expiry, C or P, strike, '_', counter
gen_trade_id(self, opt) ==
    opt[2][2] \o ToString(opt[4]) \o (IF opt[5] = "Call" THEN "C" ELSE "P")
        \o (IF opt[3][2] = 1 THEN ToString(opt[3][1])
            ELSE ToString(opt[3][1]) \o "/" \o ToString(opt[3][2]))
        \o "_" \o ToString(self.trade_id_counter)

\* Portfolio::add_trade
add_trade(self, instrument, size) ==
    LET pid == IF IsOption(instrument) THEN gen_trade_id(self, instrument)
               ELSE instrument[2]
        counted == [self EXCEPT !.trade_id_counter =
                        IF IsOption(instrument) THEN @ + 1 ELSE @]
    IN  IF pid \in DOMAIN self.positions
        THEN [counted EXCEPT !.positions[pid].size = RAdd(@, size)]
        ELSE [counted EXCEPT
                 !.positions = @ @@ (pid :> Position(size, instrument)),
                 !.position_ids = Append(@, pid)]

\* Portfolio::positions_in_order
positions_in_order(self) ==
    LET pids == SelectSeq(self.position_ids,
                          LAMBDA pid : pid \in DOMAIN self.positions)
    IN  [i \in 1..Len(pids) |-> <<pids[i], self.positions[pids[i]]>>]

\* make_vector_ctx: the Lookup context of the valuation date, then one
\* stacked context per shift of the scenario
RECURSIVE make_vector_ctx_shifts(_, _, _, _)
make_vector_ctx_shifts(pctx, shifts, k, vc) ==
    IF k > Len(shifts)
    THEN IF IsSome(vc) THEN Ok(vc[1])
         ELSE Err(PyRuntimeError("No shifts in scenario"))
    ELSE LET t == new_vector_measure_transform(
                      shifts[k].target, shifts[k].filter,
                      shifts[k].abs_shifts, shifts[k].rel_shifts)
         IN  IF ~t.ok THEN Err(PyErrFrom(t.err))
             ELSE make_vector_ctx_shifts(
                      pctx, shifts, k + 1,
                      Some(IF IsSome(vc)
                           THEN shift_vector_ctx(
                                    vc[1], t.val,
                                    IF shifts[k].is_ortho THEN "Orthogonal"
                                    ELSE "Stacked")
                           ELSE shift_base_ctx(pctx, t.val)))

make_vector_ctx(valuation_date, marketdata, scenario_def) ==
    IF valuation_date \notin DOMAIN marketdata
    THEN Err(PyRuntimeError("No market data"))
    ELSE make_vector_ctx_shifts(
             new_from_prices_and_vols(valuation_date,
                                      marketdata[valuation_date].market_prices,
                                      marketdata[valuation_date].vols),
             scenario_def, 1, None)

\* a join that puts the right vector first
extend_front(x, y) == y \o x

\* x.extend(y)
extend(x, y) == x \o y

\* a context whose abs shifts were overwritten by the call
shared_ref_reset(self) ==
    [self EXCEPT !.transform_def.shift_definition.abs_shifts =
                     [i \in DOMAIN @ |-> One]]

\* self: &Arc<Self>: a call reads the context and leaves it as it is
shared_ref(self) == self

\* ndarray::stack(Axis(0), ..): the arrays side by side under a new leading
\* axis; no arrays, or arrays of different shapes, are an error
stack(arrays) ==
    LET RECURSIVE Data(_)
        Data(k) == IF k > Len(arrays) THEN <<>>
                   ELSE arrays[k].arr \o Data(k + 1)
    IN  IF arrays = <<>> THEN Err(PyRuntimeError("ShapeError/Unsupported"))
        ELSE IF \E k \in 1..Len(arrays) : arrays[k].shape # arrays[1].shape
        THEN Err(PyRuntimeError("ShapeError/IncompatibleShape"))
        ELSE Ok([shape |-> <<Len(arrays)>> \o arrays[1].shape, arr |-> Data(1)])

\* the trades made so far, oldest first
TradeLog == IF IsSome(call) THEN call[1].trades ELSE <<>>

\* Portfolio::add_trade, for every instrument bought and for the stock sold
AddTrade ==
    /\ par = None
    /\ Len(TradeLog) < MaxTrades
    /\ \E t \in {<<i, FromInt(3)>> : i \in Instruments}
                    \cup {<<Stock(AAPL), FromInt(-2)>>} :
           /\ portfolio' = add_trade(portfolio, t[1], t[2])
           /\ call' = Some([fn |-> "add_trade", trades |-> Append(TradeLog, t)])
    /\ UNCHANGED <<ctx, td, args, vctx, alignments, res, par>>

\* the ways rayon may cut n items into contiguous chunks: the chunk lengths
RECURSIVE Splits(_)
Splits(n) ==
    IF n = 0 THEN {<<>>}
    ELSE UNION {{<<k>> \o rest : rest \in Splits(n - k)} : k \in 1..n}

\* price_portfolio_scenario up to the parallel fold: the measure is parsed,
\* the context is made, the positions are collected in order and cut.  A
\* worker of try_fold holds its items still to price, its accumulator
\* (Vec::new at first), the ids of the positions priced into it, and
\* whether it has finished.  The market data is the observation of the
\* valuation date; the scenario has no shift, a ladder of prices, or a
\* ladder of prices with an orthogonal ladder of vols.
PricePortfolioScenario ==
    /\ par = None
    /\ \E measure \in {to_string("Price"), to_string("Exposure"), VariantName("Price")},
          valuation_date \in {ValuationDate, ValuationDate + 1},
          shifts \in 0..2,
          split \in Splits(Len(positions_in_order(portfolio))) :
           LET m == parse_measure(measure)
               marketdata ==
                   ctx.valuation_date :>
                       [market_prices |-> ctx.market_price_providers,
                        vols |-> ctx.vol_providers]
               scenario_def ==
                   [k \in 1..shifts |->
                       [target |-> IF k = 1 THEN "Price" ELSE "Vol",
                        filter |-> Passthrough, abs_shifts |-> ZeroVec(MaxLen),
                        rel_shifts |-> LadderVec(MaxLen), is_ortho |-> k = 2]]
               vc == make_vector_ctx(valuation_date, marketdata, scenario_def)
               RECURSIVE Chunks(_, _)
               Chunks(items, cut) ==
                   IF cut = <<>> THEN <<>>
                   ELSE <<SubSeq(items, 1, cut[1])>>
                            \o Chunks(SubSeq(items, cut[1] + 1, Len(items)), Tail(cut))
               Worker(chunk) ==
                   [todo |-> chunk, acc |-> Ok(<<>>), priced |-> <<>>, done |-> FALSE]
               Returned(out) ==
                   [phase |-> "done", measure |-> "", workers |-> <<>>,
                    out |-> Some(out)]
           IN  IF ~m.ok
               THEN /\ par' = Some(Returned(Err(PyRuntimeError("Matching variant not found"))))
                    /\ vctx' = vctx
               ELSE IF ~vc.ok
               THEN /\ par' = Some(Returned(vc))
                    /\ vctx' = vctx
               ELSE /\ par' = Some([phase |-> "fold", measure |-> m.val,
                                    workers |->
                                        [w \in 1..Len(split) |->
                                            Worker(Chunks(positions_in_order(portfolio),
                                                          split)[w])],
                                    out |-> None])
                    /\ vctx' = Some(vc.val)
    /\ UNCHANGED <<ctx, td, args, alignments, res, call, portfolio>>

\* the closure of try_fold on the next item of a worker:
\* vctx.price_position(m, pos), pushed to the accumulator, or the error
FoldStep ==
    /\ IsSome(par) /\ par[1].phase = "fold"
    /\ \E w \in 1..Len(par[1].workers) :
           LET worker == par[1].workers[w]
               FoldItem(r) ==
                   IF r.ok
                   THEN [todo |-> Tail(worker.todo),
                         acc |-> Ok(Append(worker.acc.val, r.val)),
                         priced |-> Append(worker.priced, Head(worker.todo)[1]),
                         done |-> Len(worker.todo) = 1]
                   ELSE [worker EXCEPT !.acc = Err(PyErrFrom(r.err)),
                                       !.done = TRUE]
           IN  /\ ~worker.done
               /\ par' = Some([par[1] EXCEPT !.workers[w] =
                                  FoldItem(stacked_price_position(
                                               vctx[1], par[1].measure,
                                               Head(worker.todo)[2]))])
    /\ vctx' = Some(shared_ref(vctx[1]))
    /\ UNCHANGED <<ctx, td, args, alignments, res, call, portfolio>>

\* try_fold stops feeding a worker once another worker has failed
FoldStop ==
    /\ IsSome(par) /\ par[1].phase = "fold"
    /\ \E w, v \in 1..Len(par[1].workers) :
           /\ ~par[1].workers[w].done
           /\ ~par[1].workers[v].acc.ok
           /\ par' = Some([par[1] EXCEPT !.workers[w].done = TRUE])
    /\ UNCHANGED <<ctx, td, args, vctx, alignments, res, call, portfolio>>

\* the closure of try_reduce on two adjacent finished workers: x.extend(y),
\* or the error of the left one, else of the right one
ReducePair ==
    /\ IsSome(par) /\ par[1].phase = "fold"
    /\ \E w \in 1..(Len(par[1].workers) - 1) :
           LET Joined(x, y) ==
                   [todo |-> <<>>, priced |-> x.priced \o y.priced, done |-> TRUE,
                    acc |-> IF ~x.acc.ok THEN x.acc
                            ELSE IF ~y.acc.ok THEN y.acc
                            ELSE Ok(extend(x.acc.val, y.acc.val))]
           IN  /\ par[1].workers[w].done /\ par[1].workers[w + 1].done
               /\ par' = Some([par[1] EXCEPT !.workers =
                                  SubSeq(@, 1, w - 1)
                                      \o <<Joined(@[w], @[w + 1])>>
                                      \o SubSeq(@, w + 2, Len(@))])
    /\ UNCHANGED <<ctx, td, args, vctx, alignments, res, call, portfolio>>

\* the end of price_portfolio_scenario: the reduced vector (Vec::new when
\* there was no item), '?', and ndarray::stack along a new leading axis
StackResult ==
    /\ IsSome(par) /\ par[1].phase = "fold"
    /\ Len(par[1].workers) <= 1
    /\ \A w \in 1..Len(par[1].workers) : par[1].workers[w].done
    /\ par' = Some([par[1] EXCEPT
                       !.phase = "done",
                       !.out = Some(IF par[1].workers = <<>> THEN stack(<<>>)
                                    ELSE IF par[1].workers[1].acc.ok
                                    THEN stack(par[1].workers[1].acc.val)
                                    ELSE par[1].workers[1].acc)])
    /\ UNCHANGED <<ctx, td, args, vctx, alignments, res, call, portfolio>>

NextPar ==
    \/ AddTrade
    \/ PricePortfolioScenario
    \/ FoldStep
    \/ FoldStop
    \/ ReducePair
    \/ StackResult

SpecPar == Init /\ [][NextPar]_vars

(***************************************************************************)
(* The trades of the Python class Portfolio.  add_equity passes the ticker *)
(* string of the caller to add_trade as it is, so a ticker may be any      *)
(* string: those of the market, and one spelt like the id that             *)
(* gen_trade_id gives the first trade of the call option.                  *)
(***************************************************************************)
add_equity(self, ticker, size) == add_trade(self, Stock(ticker), size)

AddEquity ==
    /\ par = None
    /\ Len(TradeLog) < MaxTrades
    /\ \E ticker \in {AAPL, MSFT, "AAPL365C10_0"}, size \in Sizes :
           /\ portfolio' = add_equity(portfolio, ticker, size)
           /\ call' = Some([fn |-> "add_trade",
                            trades |-> Append(TradeLog, <<Stock(ticker), size>>)])
    /\ UNCHANGED <<ctx, td, args, vctx, alignments, res, par>>

NextTrades ==
    \/ AddTrade
    \/ AddEquity

SpecTrades == Init /\ [][NextTrades]_vars

(***************************************************************************)
(* The evaluation of one ctx.price call as a call stack.  A frame is a     *)
(* call of PricingCtx::price: its context, measure and instrument, and the *)
(* results of the ctx.price calls its calculator has made so far.  The     *)
(* stack follows the order of the calls and the early return of the ?      *)
(* operator; a frame returns what its calculator makes of the results.     *)
(***************************************************************************)
MaxStack == 8

\* price_option_underlying_price calling the Price of the option itself
underlying_price_calls_self(c, option) == << <<c, "Price", option>> >>

\* price_option_underlying_price: the Price of the underlying stock
underlying_price_calls(c, option) == << <<c, "Price", option[2]>> >>

\* price_equity_delta / price_equity_gamma: vcxt.price(Price, instrument)
\* prices on the executor of each coordinate of the three-point context
ladder_calls(c, instrument) ==
    LET vcxt == shift_base_ctx(c, new_vector_measure_transform(
                                      "Price", RiskFactorFilter("Equity"),
                                      <<Zero, Zero, Zero>>,
                                      <<RNeg(Bump), Zero, Bump>>).val)
    IN  [n \in 1..Size(vcxt.shape) |->
            <<ShiftedExecutor(vcxt.base_ctx,
                              CoordShifts(vcxt.axes, ctx_vec(vcxt),
                                          Unravel(vcxt.shape, n - 1), <<>>, 1).val),
              "Price", instrument>>]

\* the ctx.price calls of dispatch_measure for a frame, in the code's order
Callees(c, measure, instrument) ==
    IF measure \in {"Delta", "Gamma"} THEN ladder_calls(c, instrument)
    ELSE IF IsStock(instrument)
    THEN IF measure = "Exposure" THEN << <<c, "Price", instrument>> >> ELSE <<>>
    ELSE CASE measure = "Price" ->
                  << <<c, "UnderlyingPrice", instrument>>, <<c, "Rate", instrument>>,
                     <<c, "Vol", instrument>>, <<c, "TimeToExpiry", instrument>> >>
           [] measure = "Exposure" ->
                  << <<c, "UnderlyingPrice", instrument>>, <<c, "Delta", instrument>> >>
           [] measure = "UnderlyingPrice" -> underlying_price_calls(c, instrument)
           [] measure = "Vol" ->
                  IF IsSome(vol_provider(c, instrument))
                  THEN << <<c, "UnderlyingPrice", instrument>>,
                          <<c, "TimeToExpiry", instrument>> >>
                  ELSE <<>>
           [] OTHER -> <<>>

\* a frame: the call, and the results of the ctx.price calls it has made
Frame(x) == [ctx |-> x[1], measure |-> x[2], instrument |-> x[3], vals |-> <<>>]

FrameCalls(f) == Callees(f.ctx, f.measure, f.instrument)

\* the frame makes no further call: all are made, or the last returned Err
FrameDone(f) ==
    IF Len(f.vals) = Len(FrameCalls(f)) THEN TRUE
    ELSE IF f.vals = <<>> THEN FALSE
    ELSE ~f.vals[Len(f.vals)].ok

\* the result of call k of a frame; a call not made is never looked at
FrameArg(f, k) == IF k <= Len(f.vals) THEN f.vals[k] ELSE Ok(NaN)

\* vcxt.price of the ladder from the results of its executors: the tensor,
\* or the first error
FrameTensor(f) ==
    IF \E k \in 1..Len(f.vals) : ~f.vals[k].ok
    THEN f.vals[Len(f.vals)]
    ELSE Ok([shape |-> <<Len(f.vals)>>, arr |-> [k \in 1..Len(f.vals) |-> f.vals[k].val]])

\* dispatch_measure on the results of the frame's calls
FrameDispatch(f) ==
    IF f.measure = "Delta" THEN DeltaSlice(f.instrument, FrameTensor(f))
    ELSE IF f.measure = "Gamma" THEN GammaSlice(f.instrument, FrameTensor(f))
    ELSE IF IsStock(f.instrument)
    THEN CASE f.measure = "Price" -> price_stock_price(f.ctx, f.instrument)
           [] f.measure = "Exposure" -> FrameArg(f, 1)
           [] OTHER -> Err(MissingCalculatorError(f.measure))
    ELSE CASE f.measure = "Price" ->
                  KernelPrice(f.instrument, FrameArg(f, 1), FrameArg(f, 2),
                              FrameArg(f, 3), FrameArg(f, 4))
           [] f.measure = "Exposure" -> ExposureOf(FrameArg(f, 1), FrameArg(f, 2))
           [] f.measure = "UnderlyingPrice" -> FrameArg(f, 1)
           [] f.measure = "Vol" ->
                  VolOf(ProviderOr(vol_provider(f.ctx, f.instrument),
                                   InfrastructureError("No vol provider found")),
                        FrameArg(f, 1), FrameArg(f, 2))
           [] f.measure = "Rate" -> price_option_rate(f.ctx, f.instrument)
           [] OTHER -> price_option_tte(f.ctx, f.instrument)

\* PricingCtx::price: the dispatched value, shift-processed
FrameResult(f) == ProcessDispatched(f.ctx, f.measure, f.instrument, FrameDispatch(f))

\* a caller enters ctx.price on a Lookup context, or as the tensor loop does
\* on the executor of a scenario's coordinate
EvalEnter ==
    /\ call = None
    /\ \E base \in {l \in LookupContexts : l.market_price_providers[AAPL] = FromInt(10)},
          scenario \in BOOLEAN, measure \in Measure,
          instrument \in Instruments
              \cup {StockOption(Stock(MSFT), FromInt(10), Expiry, "Call")} :
           LET vcxt == shift_base_ctx(base, new_vector_measure_transform(
                                                "Price", Passthrough,
                                                <<Zero, One>>, <<Zero, Rat(1, 2)>>).val)
               c == IF scenario
                    THEN ShiftedExecutor(vcxt.base_ctx,
                                         CoordShifts(vcxt.axes, ctx_vec(vcxt),
                                                     <<1>>, <<>>, 1).val)
                    ELSE base
           IN  call' = Some([fn |-> "eval", entered |-> <<c, measure, instrument>>,
                             stack |-> <<Frame(<<c, measure, instrument>>)>>,
                             out |-> None])
    /\ UNCHANGED <<ctx, td, args, vctx, alignments, res, portfolio, par>>

\* the calculator of the top frame makes its next ctx.price call
EvalCall ==
    /\ IsSome(call) /\ call[1].fn = "eval" /\ call[1].stack # <<>>
    /\ Len(call[1].stack) < MaxStack
    /\ ~FrameDone(call[1].stack[Len(call[1].stack)])
    /\ call' = Some([call[1] EXCEPT
                        !.stack = Append(@, Frame(FrameCalls(@[Len(@)])[Len(@[Len(@)].vals) + 1]))])
    /\ UNCHANGED <<ctx, td, args, vctx, alignments, res, portfolio, par>>

\* the top frame returns its result: to the caller of ctx.price, or to the
\* frame below, whose calculator goes on after Ok and returns after Err
EvalReturn ==
    /\ IsSome(call) /\ call[1].fn = "eval" /\ call[1].stack # <<>>
    /\ FrameDone(call[1].stack[Len(call[1].stack)])
    /\ call' = Some(
           IF Len(call[1].stack) = 1
           THEN [call[1] EXCEPT !.stack = <<>>,
                                !.out = Some(FrameResult(call[1].stack[1]))]
           ELSE [call[1] EXCEPT
                    !.stack = Append(SubSeq(@, 1, Len(@) - 2),
                                     [@[Len(@) - 1] EXCEPT !.vals =
                                         Append(@, FrameResult(
                                                       call[1].stack[Len(call[1].stack)]))])])
    /\ UNCHANGED <<ctx, td, args, vctx, alignments, res, portfolio, par>>

NextEval ==
    \/ EvalEnter
    \/ EvalCall
    \/ EvalReturn

\* the thread that evaluates a call runs on: a step of the evaluation that
\* stays possible is eventually taken
SpecEval == Init /\ [][NextEval]_vars /\ WF_vars(EvalCall) /\ WF_vars(EvalReturn)

(***************************************************************************)
(* Properties.                                                             *)
(***************************************************************************)
Last(s) == s[Len(s)]
Dims(axes) == [k \in 1..Len(axes) |-> axes[k].dim]

\* the last call was StackedVectorizedPricingCtx::price
Priced == IsSome(res) /\ res[1].op = "price"

\* the axes list as the shape law describes it
DistinctAxes(c) ==
    LET parent_axes == IF IsSome(c.parent) THEN c.parent[1].axes ELSE <<>>
    IN  IF parent_axes # <<>> /\ Last(parent_axes) = c.axis
        THEN parent_axes
        ELSE Append(parent_axes, c.axis)

(* C1: shape law.  For every stacked context built by shift_base_ctx and   *)
(* shift_vector_ctx, axes is the parent's axes with the context's axis     *)
(* appended unless it is identical to the last entry; ctx.shape and the    *)
(* shape of price(...) are the dims of these distinct axes, and position k *)
(* of the shape is the dim of the axis with axis_id k.                     *)
C1_ShapeLaw ==
    IsSome(vctx) =>
        /\ vctx[1].axes = DistinctAxes(vctx[1])
        /\ vctx[1].shape = Dims(DistinctAxes(vctx[1]))
        /\ \A k \in 1..Len(vctx[1].shape) :
               /\ vctx[1].axes[k].axis_id = k - 1
               /\ vctx[1].shape[k] = vctx[1].axes[k].dim
        /\ (Priced /\ res[1].out.ok) =>
               res[1].out.val.shape = Dims(DistinctAxes(vctx[1]))

\* the scalar priced under the shift list [T1[i], T2[j]]
PairPrice(c, i, j, measure, instrument) ==
    price(ShiftedExecutor(c.base_ctx,
                          <<shift_item_at(c.parent[1].transform_def, i).val,
                            shift_item_at(c.transform_def, j).val>>),
          measure, instrument)

\* a root context and a Stacked child of the same length
StackedPair ==
    /\ alignments = <<"Base", "Stacked">>
    /\ transform_len(vctx[1].transform_def)
           = transform_len(vctx[1].parent[1].transform_def)

(* C2: stacked superposition.  On shift_base_ctx(T1) followed by           *)
(* shift_vector_ctx(T2, Stacked) with len(T1) = len(T2) = k, price returns *)
(* a tensor with the single coordinate i in 0..k-1 whose value at i is     *)
(* priced under the shift list [T1.shift_item_at(i), T2.shift_item_at(i)]. *)
C2_StackedSuperposition ==
    (Priced /\ StackedPair) =>
        LET c == vctx[1]
            k == transform_len(c.transform_def)
            m == res[1].measure
            ins == res[1].position.instrument
        IN  IF \A i \in 0..(k - 1) : PairPrice(c, i, i, m, ins).ok
            THEN /\ res[1].out.ok
                 /\ res[1].out.val.shape = <<k>>
                 /\ \A i \in 0..(k - 1) :
                        res[1].out.val.arr[i + 1] = PairPrice(c, i, i, m, ins).val
            ELSE ~res[1].out.ok

(* C3: axis construction.  shift_base_ctx(base, T) yields a root context   *)
(* with axis (0, len(T)), no parent and shape [len(T)];                    *)
(* shift_vector_ctx(parent, T, Orthogonal) yields a context with axis      *)
(* (parent.axis.axis_id + 1, len(T)), the parent's axes with that axis     *)
(* appended and the parent's shape with len(T) appended.                   *)
C3_AxisConstruction ==
    IsSome(vctx) =>
        LET c == vctx[1]
            n == transform_len(c.transform_def)
        IN  /\ Last(alignments) = "Base" =>
                   /\ c.axis = [axis_id |-> 0, dim |-> n]
                   /\ c.parent = None
                   /\ c.base_ctx = ctx
                   /\ c.axes = <<c.axis>>
                   /\ c.shape = <<n>>
            /\ Last(alignments) = "Orthogonal" =>
                   /\ c.axis = [axis_id |-> c.parent[1].axis.axis_id + 1, dim |-> n]
                   /\ c.base_ctx = c.parent[1].base_ctx
                   /\ c.axes = Append(c.parent[1].axes, c.axis)
                   /\ c.shape = Append(c.parent[1].shape, n)

\* an Orthogonal child of the longest length over a root of length 1
C3_Witness ==
    /\ IsSome(vctx)
    /\ alignments = <<"Base", "Orthogonal">>
    /\ vctx[1].parent[1].shape = <<1>>
    /\ vctx[1].shape = <<1, MaxLen>>

\* a root context and an Orthogonal child
OrthogonalPair == alignments = <<"Base", "Orthogonal">>

\* two transforms that target different measures, or whose filters accept
\* no common instrument
Disjoint(t1, t2) ==
    \/ t1.shift_target # t2.shift_target
    \/ \A ins \in Instruments :
           ~(accept(t1.shift_definition.instrument_filter, ins)
               /\ accept(t2.shift_definition.instrument_filter, ins))

\* the item at index i shifts nothing
IdentityAt(t, i) ==
    /\ t.shift_definition.rel_shifts[i + 1] = Zero
    /\ t.shift_definition.abs_shifts[i + 1] = Zero

(* C4: orthogonal independence.  For a root T1 and an Orthogonal child T2  *)
(* that are disjoint, element (i, j) of the 2-D result is the scalar       *)
(* priced under exactly [T1.shift_item_at(i), T2.shift_item_at(j)]; where  *)
(* T2's shift at j is the identity the slice over i is the 1-D tensor of   *)
(* T1 alone, and where T1's shift at i is the identity the slice over j is *)
(* the 1-D tensor of T2 alone.                                             *)
C4_OrthogonalIndependence ==
    (Priced /\ OrthogonalPair
        /\ Disjoint(vctx[1].parent[1].transform_def, vctx[1].transform_def)) =>
        LET c == vctx[1]
            t1 == c.parent[1].transform_def
            t2 == c.transform_def
            k1 == transform_len(t1)
            k2 == transform_len(t2)
            m == res[1].measure
            ins == res[1].position.instrument
            out == res[1].out
            alone1 == stacked_price(shift_base_ctx(c.base_ctx, t1), m, ins)
            alone2 == stacked_price(shift_base_ctx(c.base_ctx, t2), m, ins)
        IN  /\ (\A i \in 0..(k1 - 1), j \in 0..(k2 - 1) :
                    PairPrice(c, i, j, m, ins).ok) => out.ok
            /\ out.ok =>
                   /\ out.val.shape = <<k1, k2>>
                   /\ Len(out.val.arr) = k1 * k2
                   /\ \A i \in 0..(k1 - 1), j \in 0..(k2 - 1) :
                          /\ out.val.arr[i * k2 + j + 1] = PairPrice(c, i, j, m, ins).val
                          /\ IdentityAt(t2, j) =>
                                 /\ alone1.ok
                                 /\ out.val.arr[i * k2 + j + 1] = alone1.val.arr[i + 1]
                          /\ IdentityAt(t1, i) =>
                                 /\ alone2.ok
                                 /\ out.val.arr[i * k2 + j + 1] = alone2.val.arr[j + 1]

\* an option priced on a price ladder crossed with a vol ladder, both of
\* which move the price
C4_Witness ==
    /\ Priced /\ OrthogonalPair
    /\ Disjoint(vctx[1].parent[1].transform_def, vctx[1].transform_def)
    /\ res[1].measure = "Price" /\ res[1].position.instrument = AaplCall
    /\ res[1].out.ok
    /\ res[1].out.val.shape = <<MaxLen, MaxLen>>
    /\ res[1].out.val.arr[1] # res[1].out.val.arr[2]
    /\ res[1].out.val.arr[1] # res[1].out.val.arr[MaxLen + 1]

(* C5: pure passthrough.  For a measure and instrument that price on the   *)
(* base context, a root context whose transform has a Passthrough filter   *)
(* and k shifts that are all zero returns a vector of length k whose every *)
(* entry is the unshifted base_ctx.price(measure, instrument), whatever    *)
(* measure the transform targets.                                          *)
C5_PurePassthrough ==
    (/\ Priced /\ alignments = <<"Base">>
     /\ vctx[1].transform_def.shift_definition.instrument_filter = Passthrough
     /\ \A i \in 0..(transform_len(vctx[1].transform_def) - 1) :
            IdentityAt(vctx[1].transform_def, i)
     /\ price(vctx[1].base_ctx, res[1].measure, res[1].position.instrument).ok) =>
        LET k == transform_len(vctx[1].transform_def)
            base == price(vctx[1].base_ctx, res[1].measure, res[1].position.instrument)
        IN  /\ res[1].out.ok
            /\ res[1].out.val.shape = <<k>>
            /\ Len(res[1].out.val.arr) = k
            /\ \A n \in 1..k : res[1].out.val.arr[n] = base.val

\* the delta of the option under a zero shift of the vol, of the longest length
C5_Witness ==
    /\ Priced /\ alignments = <<"Base">>
    /\ vctx[1].transform_def.shift_target = SingleMeasureTarget("Vol")
    /\ vctx[1].transform_def.shift_definition.instrument_filter = Passthrough
    /\ vctx[1].transform_def.shift_definition.rel_shifts = ZeroVec(MaxLen)
    /\ vctx[1].transform_def.shift_definition.abs_shifts = ZeroVec(MaxLen)
    /\ res[1].measure = "Delta" /\ res[1].position.instrument = AaplCall
    /\ res[1].out.ok
    /\ Len(res[1].out.val.arr) = MaxLen

\* the tensors have the same shape and every element of a is s times that of b
ScaledBy(s, a, b) ==
    /\ a.shape = b.shape
    /\ Len(a.arr) = Len(b.arr)
    /\ \A n \in 1..Len(a.arr) : a.arr[n] = RMul(s, b.arr[n])

(* C6: linear scaling.  For Exposure, price_position on a position of size *)
(* s is s times price_position on the same instrument with size 1, on the  *)
(* scalar context and element-wise on the stacked context; for every other *)
(* measure price_position equals price and does not depend on the size.    *)
C6_LinearScaling ==
    /\ (IsSome(res) /\ res[1].op = "price_position") =>
           LET m == res[1].measure
               ins == res[1].position.instrument
               unit == stacked_price_position(vctx[1], m, Position(One, ins))
           IN  IF m = "Exposure"
               THEN IF unit.ok
                    THEN /\ res[1].out.ok
                         /\ ScaledBy(res[1].position.size, res[1].out.val, unit.val)
                    ELSE res[1].out = unit
               ELSE /\ res[1].out = stacked_price(vctx[1], m, ins)
                    /\ res[1].out = unit
    /\ (IsSome(res) /\ res[1].op = "ctx_price_position") =>
           LET m == res[1].measure
               ins == res[1].position.instrument
               unit == price_position(ctx, m, Position(One, ins))
           IN  IF m = "Exposure"
               THEN IF unit.ok
                    THEN /\ res[1].out.ok
                         /\ res[1].out.val = RMul(res[1].position.size, unit.val)
                    ELSE res[1].out = unit
               ELSE /\ res[1].out = price(ctx, m, ins)
                    /\ res[1].out = unit

\* the exposure of a position in the option on a stacked context
C6_Witness ==
    /\ IsSome(res) /\ res[1].op = "price_position"
    /\ res[1].measure = "Exposure"
    /\ res[1].position = Position(FromInt(3), AaplCall)
    /\ res[1].out.ok
    /\ Len(res[1].out.val.arr) = MaxLen
    /\ \A n \in 1..MaxLen : res[1].out.val.arr[n] \notin {Zero, NaN}

\* a pricing call was made for the stock that has no spot
PricedUnobserved ==
    /\ IsSome(res)
    /\ res[1].position.instrument = Stock(MSFT)
    /\ res[1].measure \in {"Price", "Exposure", "Delta", "Gamma"}

(* C7: missing market data.  Pricing Price, Exposure, Delta or Gamma for a *)
(* stock whose ticker is not in the spot map fails with                    *)
(* MissingMarketData{Price, ticker} on the Lookup context and on every     *)
(* stacked context built over it; no numeric value is returned.            *)
C7_MissingMarketData ==
    PricedUnobserved => res[1].out = Err(MissingMarketDataError("Price", MSFT))

\* the coordinates of a tensor of this shape in row-major order
Coords(shape) == [k \in 1..Size(shape) |-> Unravel(shape, k - 1)]

(* C8: no partial tensor.  If building the shift list or evaluating the    *)
(* measure fails at a coordinate, price and price_position return that     *)
(* error and no tensor; on success every coordinate has been written       *)
(* exactly once, with the value computed for that coordinate, and no       *)
(* placeholder remains.                                                    *)
C8_NoPartialTensor ==
    /\ Priced =>
           LET c == vctx[1]
               m == res[1].measure
               ins == res[1].position.instrument
               out == res[1].out
           IN  IF out.ok
               THEN /\ res[1].written = Coords(c.shape)
                    /\ res[1].visited = Coords(c.shape)
                    /\ out.val.shape = c.shape
                    /\ Len(out.val.arr) = Size(c.shape)
                    /\ \A k \in 1..Size(c.shape) :
                           /\ PriceAt(c, ctx_vec(c), m, ins, Coords(c.shape)[k]).ok
                           /\ out.val.arr[k]
                                  = PriceAt(c, ctx_vec(c), m, ins, Coords(c.shape)[k]).val
                           /\ ~IsNaN(out.val.arr[k])
               ELSE /\ out.val = <<>>
                    /\ res[1].visited # <<>>
                    /\ res[1].written
                           = SubSeq(res[1].visited, 1, Len(res[1].visited) - 1)
                    /\ out = PriceAt(c, ctx_vec(c), m, ins, Last(res[1].visited))
    /\ (IsSome(res) /\ res[1].op = "price_position") =>
           LET pr == stacked_price(vctx[1], res[1].measure, res[1].position.instrument)
           IN  IF pr.ok
               THEN /\ res[1].out.ok
                    /\ res[1].out.val.shape = vctx[1].shape
                    /\ Len(res[1].out.val.arr) = Size(vctx[1].shape)
                    /\ \A k \in 1..Size(vctx[1].shape) : ~IsNaN(res[1].out.val.arr[k])
               ELSE res[1].out = pr

\* a call that failed after it had written at least one element
C8_Witness ==
    /\ Priced
    /\ ~res[1].out.ok
    /\ Len(res[1].written) >= 1
    /\ Len(res[1].visited) < Size(vctx[1].shape)

\* the last context was stacked on its parent's axis with another length;
\* no axis of the tensor is empty
StackedMismatch ==
    /\ IsSome(vctx)
    /\ Len(alignments) >= 2 /\ Last(alignments) = "Stacked"
    /\ transform_len(vctx[1].transform_def) # vctx[1].parent[1].axis.dim
    /\ Size(vctx[1].shape) >= 1

(* C9: Stacked alignment with mismatched length.  shift_vector_ctx(parent, *)
(* T, Stacked) with len(T) different from parent.axis.dim builds a context *)
(* that keeps the parent's dim, and every price evaluation on it fails     *)
(* with InvalidScenario.  (Stated for tensors that have an element.)       *)
C9_StackedMismatch ==
    StackedMismatch =>
        /\ vctx[1].axis = vctx[1].parent[1].axis
        /\ (IsSome(res) /\ res[1].op \in {"price", "price_position"}) =>
               /\ ~res[1].out.ok
               /\ res[1].out.err[1] = "InvalidScenario"

(* C10: transform builders.  new_vector_measure_transform fails with       *)
(* InvalidScenario exactly when len(abs_shifts) differs from               *)
(* len(rel_shifts) and otherwise returns a transform whose len is the      *)
(* common length; new_scalar_measure_transform always succeeds and returns *)
(* a transform of len 1.                                                   *)
C10_TransformBuilders ==
    IsSome(args) =>
        /\ IsSome(td)
        /\ IF args[1].builder = "new_vector_measure_transform"
           THEN /\ ~td[1].ok <=> Len(args[1].abs_shifts) # Len(args[1].rel_shifts)
                /\ ~td[1].ok => td[1].err[1] = "InvalidScenario"
                /\ td[1].ok =>
                       /\ transform_len(td[1].val) = Len(args[1].abs_shifts)
                       /\ transform_len(td[1].val) = Len(args[1].rel_shifts)
                       /\ Len(td[1].val.shift_definition.abs_shifts)
                              = Len(td[1].val.shift_definition.rel_shifts)
           ELSE /\ td[1].ok
                /\ transform_len(td[1].val) = 1
                /\ Len(td[1].val.shift_definition.abs_shifts) = 1

\* the vector builder was called with vectors of different lengths
C10_Witness ==
    /\ IsSome(args) /\ IsSome(td)
    /\ args[1].builder = "new_vector_measure_transform"
    /\ Len(args[1].abs_shifts) = MaxLen
    /\ Len(args[1].rel_shifts) < MaxLen
    /\ ~td[1].ok

\* the last call was of this function
Called(fn) == IsSome(call) /\ call[1].fn = fn

(* C11: shift_item_at.  For a transform built by either builder,           *)
(* shift_item_at(i) fails with InvalidScenario when i >= len, and for      *)
(* i < len returns an item with abs_shift = abs_shifts[i], rel_shift =     *)
(* rel_shifts[i], the transform's filter and the target Single(target).    *)
C11_ShiftItemAt ==
    Called("shift_item_at") =>
        LET b == call[1].built
            i == call[1].i
            out == call[1].out
        IN  IF i >= Len(b.abs_shifts)
            THEN ~out.ok /\ out.err[1] = "InvalidScenario"
            ELSE /\ out.ok
                 /\ out.val.abs_shift = b.abs_shifts[i + 1]
                 /\ out.val.rel_shift = b.rel_shifts[i + 1]
                 /\ out.val.instrument_filter = b.filter
                 /\ out.val.shift_target = <<"SingleMeasureTarget", b.target>>

\* the last item of a longest vector transform, whose two shifts differ
C11_Witness ==
    /\ Called("shift_item_at")
    /\ call[1].built.builder = "new_vector_measure_transform"
    /\ call[1].i = MaxLen - 1
    /\ call[1].out.ok
    /\ call[1].out.val.abs_shift # call[1].out.val.rel_shift

(* C12: axis dimension.  Every axis of every stacked context built through *)
(* the transform builders and shift_base_ctx / shift_vector_ctx has        *)
(* dim >= 1, so that no result tensor is empty.                            *)
C12_AxisDimension ==
    IsSome(vctx) =>
        /\ vctx[1].axis.dim >= 1
        /\ \A k \in 1..Len(vctx[1].axes) : vctx[1].axes[k].dim >= 1
        /\ (Priced /\ res[1].out.ok) => Len(res[1].out.val.arr) >= 1

\* the executor the tensor loop prices on at a coordinate whose shift list
\* could be built
SliceShifts(c, coord) == CoordShifts(c.axes, ctx_vec(c), coord, <<>>, 1)
SliceCtx(c, coord) == ShiftedExecutor(c.base_ctx, SliceShifts(c, coord).val)

\* what the instrument-kind calculator answers
KindCalculator(c, m, ins) ==
    IF IsOption(ins) THEN price_option(c, m, ins) ELSE price_stock(c, m, ins)

\* the dispatch as C13 describes it
DispatchLaw(c, m, ins) ==
    LET k == KindCalculator(c, m, ins)
    IN  IF ~k.ok THEN k
        ELSE IF k.val # None THEN Ok(k.val[1])
        ELSE IF m \in {"Delta", "Gamma"} THEN price_generic(c, m, ins)
        ELSE Err(MissingCalculatorError(m))

\* the dispatched value, passed through process_shifts
PriceLaw(c, m, ins) ==
    LET d == DispatchLaw(c, m, ins)
    IN  IF d.ok THEN process_shifts(c, m, ins, d.val) ELSE d

(* C13: measure dispatch.  dispatch_measure asks the stock or option       *)
(* calculator first and returns its error as it is; it calls the generic   *)
(* calculator only when that calculator reports 'not handled'; the generic *)
(* calculator handles Delta and Gamma and fails with                       *)
(* MissingCalculator(measure) for every other measure; and every value     *)
(* ctx.price returns has been passed through ctx.process_shifts.           *)
C13_MeasureDispatch ==
    /\ Priced =>
           \A k \in 1..Len(res[1].visited) :
               SliceShifts(vctx[1], res[1].visited[k]).ok =>
                   LET se == SliceCtx(vctx[1], res[1].visited[k])
                       m == res[1].measure
                       ins == res[1].position.instrument
                   IN  /\ dispatch_measure(se, m, ins) = DispatchLaw(se, m, ins)
                       /\ m \notin {"Delta", "Gamma"} =>
                              price_generic(se, m, ins) = Err(MissingCalculatorError(m))
                       /\ IF res[1].out.ok
                          THEN /\ PriceLaw(se, m, ins).ok
                               /\ res[1].out.val.arr[k] = PriceLaw(se, m, ins).val
                          ELSE k = Len(res[1].visited) =>
                                  res[1].out = PriceLaw(se, m, ins)
    /\ (IsSome(res) /\ res[1].op = "ctx_price_position") =>
           /\ dispatch_measure(ctx, res[1].measure, res[1].position.instrument)
                  = DispatchLaw(ctx, res[1].measure, res[1].position.instrument)
           /\ price(ctx, res[1].measure, res[1].position.instrument)
                  = PriceLaw(ctx, res[1].measure, res[1].position.instrument)
           /\ res[1].out.ok = PriceLaw(ctx, res[1].measure,
                                       res[1].position.instrument).ok

\* the generic calculator answered for an option on a context whose shift
\* moves the underlying
C13_Witness ==
    /\ Priced
    /\ res[1].measure = "Delta" /\ res[1].position.instrument = AaplCall
    /\ res[1].out.ok
    /\ Len(res[1].out.val.arr) = MaxLen
    /\ res[1].out.val.arr[1] # res[1].out.val.arr[MaxLen]

(* C14: instrument filter.  Passthrough accepts every instrument;          *)
(* TickerFilter(t) accepts exactly the stocks whose ticker is t and never  *)
(* an option, even one on t; RiskFactorFilter(Equity) accepts every stock  *)
(* and no option.  is_target(m) is measure equality for a single target    *)
(* and set membership for a multi target.                                  *)
C14_InstrumentFilter ==
    /\ Called("accept") =>
           LET f == call[1].filter
               ins == call[1].instrument
           IN  call[1].out =
                   CASE f[1] = "Passthrough" -> TRUE
                     [] f[1] = "TickerFilter" -> ins = <<"Stock", f[2]>>
                     [] f[1] = "RiskFactorFilter" -> ins[1] = "Stock"
    /\ Called("is_target") =>
           call[1].out =
               IF call[1].target[1] = "SingleMeasureTarget"
               THEN call[1].target[2] = call[1].m
               ELSE call[1].m \in call[1].target[2]

\* a ticker filter asked about an option on its ticker
C14_Witness ==
    /\ Called("accept")
    /\ call[1].filter = TickerFilter(AAPL)
    /\ call[1].instrument = AaplCall
    /\ call[1].out = FALSE

\* the names price, exposure, underlying_price, vol, rate, time_to_expiry,
\* delta, gamma
SnakeName(m) ==
    CASE m = "Price" -> <<"p", "r", "i", "c", "e">>
     [] m = "Exposure" -> <<"e", "x", "p", "o", "s", "u", "r", "e">>
     [] m = "UnderlyingPrice" -> <<"u", "n", "d", "e", "r", "l", "y", "i", "n", "g", "_", "p", "r", "i", "c", "e">>
     [] m = "Vol" -> <<"v", "o", "l">>
     [] m = "Rate" -> <<"r", "a", "t", "e">>
     [] m = "TimeToExpiry" -> <<"t", "i", "m", "e", "_", "t", "o", "_", "e", "x", "p", "i", "r", "y">>
     [] m = "Delta" -> <<"d", "e", "l", "t", "a">>
     [] m = "Gamma" -> <<"g", "a", "m", "m", "a">>

(* C15: measure round-trip.  For each of the eight measures m,             *)
(* parse_measure(to_string(m)) = m, and to_string gives the snake_case     *)
(* names; parse_measure of any other string fails with InvalidMeasure      *)
(* carrying that string.                                                   *)
C15_MeasureRoundtrip ==
    /\ Called("to_string") =>
           /\ call[1].s = SnakeName(call[1].m)
           /\ call[1].out = Ok(call[1].m)
    /\ Called("parse_measure") =>
           IF \E m \in Measure : call[1].s = SnakeName(m)
           THEN call[1].out.ok /\ call[1].s = SnakeName(call[1].out.val)
           ELSE call[1].out = Err(<<"InvalidMeasureError", call[1].s>>)

\* the round trip of the measure whose name has two underscores
C15_Witness ==
    /\ Called("to_string")
    /\ call[1].m = "TimeToExpiry"
    /\ Len(call[1].s) = 14
    /\ call[1].out = Ok("TimeToExpiry")

\* the Price of the instrument on the transient three-point context: an
\* Equity risk-factor filter targeting Price, rel shifts -0.01, 0, +0.01 and
\* zero abs shifts
Ladder3(c, instrument) ==
    stacked_price(
        shift_base_ctx(c, new_vector_measure_transform(
                              "Price", RiskFactorFilter("Equity"),
                              <<Zero, Zero, Zero>>,
                              <<Rat(-1, 100), Zero, Rat(1, 100)>>).val),
        "Price", instrument)

\* the ladder prices [V_down, V, V_up] of the call at hand
LadderV == Ladder3(call[1].ctx, call[1].instrument).val.arr

\* h = 0.01 * V
StepH == RMul(Rat(1, 100), LadderV[2])

\* a Delta or Gamma call whose ladder is priced, with V # 0
GreekCall(measure) ==
    /\ Called("price")
    /\ call[1].measure = measure
    /\ Ladder3(call[1].ctx, call[1].instrument).ok
    /\ LadderV[2] # Zero

\* a call for a stock whose spot is observed and is not zero
StockCall(measure) ==
    /\ Called("price")
    /\ call[1].measure = measure
    /\ IsStock(call[1].instrument)
    /\ call[1].instrument[2] \in DOMAIN call[1].ctx.market_price_providers
    /\ call[1].ctx.market_price_providers[call[1].instrument[2]] # Zero

(* C16: finite-difference greeks.  Delta = (V_up - V_down) / (2h) and      *)
(* Gamma = (V_up - 2V + V_down) / h^2 with h = 0.01 * V, where             *)
(* [V_down, V, V_up] is the Price under the three-point context; for a     *)
(* stock with non-zero spot P on a Lookup context, Price = P, Delta = 1    *)
(* and Gamma = 0.                                                          *)
C16_FiniteDifferenceGreeks ==
    /\ GreekCall("Delta") =>
           call[1].out = Ok(RDiv(RSub(LadderV[3], LadderV[1]),
                                 RMul(FromInt(2), StepH)))
    /\ GreekCall("Gamma") =>
           call[1].out = Ok(RDiv(RAdd(RSub(LadderV[3], RMul(FromInt(2), LadderV[2])),
                                      LadderV[1]),
                                 RMul(StepH, StepH)))
    /\ StockCall("Price") =>
           call[1].out =
               Ok(call[1].ctx.market_price_providers[call[1].instrument[2]])
    /\ StockCall("Delta") => call[1].out = Ok(One)
    /\ StockCall("Gamma") => call[1].out = Ok(Zero)

\* the Delta of the at-the-money call at spot 10: the ladder is
\* 4.85, 5, 5.15 and h = 0.05
C16_Witness ==
    /\ GreekCall("Delta")
    /\ call[1].instrument = AaplCall
    /\ LadderV = <<Rat(97, 20), FromInt(5), Rat(103, 20)>>
    /\ call[1].out = Ok(FromInt(3))

\* a Delta or Gamma call whose ladder is priced, with V = 0
ZeroPriceCall ==
    /\ Called("price")
    /\ call[1].measure \in {"Delta", "Gamma"}
    /\ Ladder3(call[1].ctx, call[1].instrument).ok
    /\ LadderV[2] = Zero

(* C17: zero-price greeks.  When the unbumped price V of the ladder is     *)
(* exactly 0, Delta and Gamma return 0 if |V_up - V_down| < epsilon and    *)
(* otherwise fail with ShiftExecution('zero price in relshift') carrying   *)
(* the instrument; the result never comes from a division by h = 0.        *)
C17_ZeroPriceGreeks ==
    ZeroPriceCall =>
        IF LadderV[3] = LadderV[1]
        THEN call[1].out = Ok(Zero)
        ELSE call[1].out = Err(<<"ShiftExecutionError", call[1].instrument,
                                 "zero price in relshift">>)

\* the call priced at zero at spot 10, whose bumped prices differ
C17_Witness ==
    /\ ZeroPriceCall
    /\ call[1].instrument = ZeroCall
    /\ LadderV[3] # LadderV[1]
    /\ ~call[1].out.ok

\* the positions a sequence of trades leaves, in the order of their first
\* insertion: one per stock ticker, holding the sum of its trades, and one
\* per option trade
RECURSIVE InsertedPositions(_)
InsertedPositions(trades) ==
    IF trades = <<>> THEN <<>>
    ELSE LET before == InsertedPositions(SubSeq(trades, 1, Len(trades) - 1))
             t == trades[Len(trades)]
         IN  IF IsStock(t[1]) /\ \E k \in 1..Len(before) : before[k].instrument = t[1]
             THEN [k \in 1..Len(before) |->
                      IF before[k].instrument = t[1]
                      THEN [before[k] EXCEPT !.size = RAdd(@, t[2])]
                      ELSE before[k]]
             ELSE Append(before, Position(t[2], t[1]))

\* price_portfolio_scenario has returned a tensor
Stacked ==
    /\ IsSome(par) /\ par[1].phase = "done"
    /\ par[1].out[1].ok

\* slice p of the returned tensor along its leading axis
SliceOf(p) ==
    SubSeq(par[1].out[1].val.arr, (p - 1) * Size(vctx[1].shape) + 1,
           p * Size(vctx[1].shape))

(* C18: portfolio order under parallel pricing.  The tensor returned by    *)
(* price_portfolio_scenario has one slice per position along a leading     *)
(* axis, and slice p is the tensor of the p-th inserted position, however  *)
(* the fold cut the positions into chunks and however the workers were     *)
(* interleaved.                                                            *)
C18_PortfolioOrder ==
    Stacked =>
        /\ par[1].out[1].val.shape =
               <<Len(InsertedPositions(TradeLog))>> \o vctx[1].shape
        /\ \A p \in 1..Len(InsertedPositions(TradeLog)) :
               SliceOf(p) = stacked_price_position(
                                vctx[1], par[1].measure,
                                InsertedPositions(TradeLog)[p]).val.arr

\* three positions whose tensors all differ, stacked
C18_Witness ==
    /\ Stacked
    /\ Len(InsertedPositions(TradeLog)) = 3
    /\ SliceOf(1) # SliceOf(2) /\ SliceOf(2) # SliceOf(3) /\ SliceOf(1) # SliceOf(3)

\* every tensor a worker holds is the one a serial call on the context
\* returns for the same measure and position
WorkersAgree ==
    IsSome(par) /\ par[1].phase = "fold" =>
        \A w \in 1..Len(par[1].workers) :
            par[1].workers[w].acc.ok =>
                \A i \in 1..Len(par[1].workers[w].priced) :
                    Ok(par[1].workers[w].acc.val[i]) =
                        stacked_price_position(
                            vctx[1], par[1].measure,
                            portfolio.positions[par[1].workers[w].priced[i]])

GenericDelta(c, ins) ==
    process_shifts(c, "Delta", ins, price_generic(c, "Delta", ins).val)

\* Exposure as C20 describes it: the stock's Price through the context, or
\* the option's UnderlyingPrice times its Delta, then shift-processed for
\* Exposure
ExposureLaw(c, ins) ==
    process_shifts(
        c, "Exposure", ins,
        IF IsStock(ins) THEN price(c, "Price", ins).val
        ELSE RMul(price(c, "UnderlyingPrice", ins).val, GenericDelta(c, ins).val))

(* C20: Exposure.  For a stock, Exposure is the stock's Price evaluated     *)
(* through the same context, then shift-processed for Exposure; for an     *)
(* option, Exposure is UnderlyingPrice times Delta, both evaluated through  *)
(* the same context, with Delta from the generic finite-difference         *)
(* calculator.                                                             *)
C20_Exposure ==
    /\ (Priced /\ res[1].measure = "Exposure" /\ res[1].out.ok) =>
           \A k \in 1..Len(res[1].out.val.arr) :
               Ok(res[1].out.val.arr[k]) =
                   ExposureLaw(SliceCtx(vctx[1], res[1].visited[k]),
                               res[1].position.instrument)
    /\ (IsSome(res) /\ res[1].op = "ctx_price_position"
            /\ res[1].measure = "Exposure" /\ res[1].out.ok) =>
           res[1].out =
               Ok(RMul(res[1].position.size,
                       ExposureLaw(ctx, res[1].position.instrument).val))

\* the Exposure of the call along a ladder of prices: it moves with the
\* price of the underlying, and is not that price
C20_Witness ==
    /\ Priced
    /\ res[1].measure = "Exposure" /\ res[1].position.instrument = AaplCall
    /\ res[1].out.ok
    /\ Len(res[1].out.val.arr) = MaxLen
    /\ res[1].out.val.arr[1] # res[1].out.val.arr[MaxLen]
    /\ Ok(res[1].out.val.arr[1]) #
           price(SliceCtx(vctx[1], res[1].visited[1]), "UnderlyingPrice", AaplCall)

\* a call of ctx.price for an option on a Lookup context: the ticker of its
\* underlying, and whether the context observes a spot and a vol for it
OptionCall(measure) ==
    /\ Called("price")
    /\ call[1].measure = measure
    /\ IsOption(call[1].instrument)

Underlying == call[1].instrument[2][2]
HasSpot == Underlying \in DOMAIN call[1].ctx.market_price_providers
HasVol == Underlying \in DOMAIN call[1].ctx.vol_providers

\* C21 with the message msg for the missing vol provider
MissingProviderLaw(msg) ==
    /\ (OptionCall("UnderlyingPrice") /\ HasSpot) =>
           call[1].out = Ok(call[1].ctx.market_price_providers[Underlying])
    /\ (OptionCall("Vol") /\ HasVol /\ HasSpot) =>
           call[1].out = Ok(call[1].ctx.vol_providers[Underlying])
    /\ (OptionCall("Vol") /\ ~HasVol) =>
           call[1].out = Err(<<"InfrastructureError", msg>>)
    /\ (OptionCall("Price") /\ ~HasVol /\ ~HasSpot) =>
           call[1].out = Err(<<"MissingMarketDataError", "Price", Underlying>>)

(* C21: missing-provider errors for options, as stated.  The providers of  *)
(* an option are looked up by its underlying's ticker; Vol for an option   *)
(* whose underlying has no vol entry fails with                            *)
(* Infrastructure('no vol provider') before the spot is evaluated; Price   *)
(* with both spot and vol missing fails with MissingMarketData{Price,      *)
(* underlying ticker}.                                                     *)
C21_AsStated == MissingProviderLaw("no vol provider")

(* C21, amended: the same, where the message of the Infrastructure error   *)
(* is 'No vol provider found'.                                             *)
C21_MissingProvider == MissingProviderLaw("No vol provider found")

\* Vol of the call whose underlying has neither spot nor vol
C21_Witness ==
    /\ OptionCall("Vol")
    /\ ~HasVol /\ ~HasSpot
    /\ ~call[1].out.ok
    /\ call[1].out.err[1] = "InfrastructureError"

\* the last call was StackedVectorizedPricingCtx::price on a scenario
ScenarioCall == Called("stacked_price")

\* the executors of the scenario at hand: the one of each coordinate, and
\* the ones the three-point ladder of the greeks puts on top of it
ScenarioExecutors ==
    {SliceCtx(call[1].vctx, Unravel(call[1].vctx.shape, n)) :
         n \in 0..(Size(call[1].vctx.shape) - 1)}

LadderExecutors(se) ==
    {SliceCtx(shift_base_ctx(se, new_vector_measure_transform(
                                     "Price", RiskFactorFilter("Equity"),
                                     <<Zero, Zero, Zero>>,
                                     <<Rat(-1, 100), Zero, Rat(1, 100)>>).val),
              <<j>>) : j \in 0..2}

\* the item's target contains the measure and its filter accepts the instrument
Matches(si, m, ins) ==
    /\ IF si.shift_target[1] = "SingleMeasureTarget" THEN si.shift_target[2] = m
       ELSE m \in si.shift_target[2]
    /\ CASE si.instrument_filter[1] = "Passthrough" -> TRUE
         [] si.instrument_filter[1] = "TickerFilter" ->
                ins = <<"Stock", si.instrument_filter[2]>>
         [] si.instrument_filter[1] = "RiskFactorFilter" -> ins[1] = "Stock"

\* shift processing as C22 describes it
RECURSIVE ProcessLaw(_, _, _, _)
ProcessLaw(c, m, ins, v) ==
    IF c.kind = "LookupExecutor" THEN v
    ELSE LET RECURSIVE Walk(_, _)
             Walk(x, k) ==
                 IF k > Len(c.shifts) THEN x
                 ELSE Walk(IF Matches(c.shifts[k], m, ins)
                           THEN RAdd(RMul(RAdd(One, c.shifts[k].rel_shift), x),
                                     c.shifts[k].abs_shift)
                           ELSE x,
                           k + 1)
         IN  Walk(ProcessLaw(c.base_ctx, m, ins, v), 1)

ProcessAgrees(se) ==
    \A v \in {FromInt(10), Rat(1, 2)} :
        /\ process(se, call[1].measure, call[1].instrument, v)
               = Ok(ProcessLaw(se, call[1].measure, call[1].instrument, v))
        /\ (\A k \in 1..Len(se.shifts) :
                ~Matches(se.shifts[k], call[1].measure, call[1].instrument))
               => process(se, call[1].measure, call[1].instrument, v)
                      = process_shifts(se.base_ctx, call[1].measure,
                                       call[1].instrument, v)

(* C22: shifted executor processing.  process(measure, instrument, v)      *)
(* first applies the base context's process_shifts to v (identity for a    *)
(* Lookup base), then walks its items in insertion order and replaces v by *)
(* (1 + rel_shift) * v + abs_shift for exactly the items whose target      *)
(* contains the measure and whose filter accepts the instrument; with no   *)
(* matching item the result is the base's processed value.                 *)
C22_ShiftedProcess ==
    ScenarioCall =>
        \A se \in ScenarioExecutors :
            /\ ProcessAgrees(se)
            /\ \A le \in LadderExecutors(se) : ProcessAgrees(le)

\* an executor with an item that does not match the call and one that does
C22_Witness ==
    /\ ScenarioCall
    /\ call[1].measure = "Price" /\ call[1].instrument = Stock(AAPL)
    /\ \E se \in ScenarioExecutors :
           /\ Len(se.shifts) = 2
           /\ ~Matches(se.shifts[1], "Price", Stock(AAPL))
           /\ Matches(se.shifts[2], "Price", Stock(AAPL))
           /\ process(se, "Price", Stock(AAPL), FromInt(10)) = Ok(FromInt(5))

\* the ancestor chain of a stacked context, root first, self last
RECURSIVE Chain(_)
Chain(c) == IF c.parent = <<>> THEN <<c>> ELSE Chain(c.parent[1]) \o <<c>>

\* the (axis position, chain position) pairs whose context sits on the axis,
\* in the order of the walk: axes in order, and for each the chain in order
RECURSIVE WalkPairs(_, _, _)
WalkPairs(c, a, n) ==
    IF a > Len(c.axes) THEN <<>>
    ELSE IF n > Len(Chain(c)) THEN WalkPairs(c, a + 1, 1)
    ELSE (IF Chain(c)[n].axis = c.axes[a] THEN <<<<a, n>>>> ELSE <<>>)
             \o WalkPairs(c, a, n + 1)

\* the item of a transform at an index, from its vectors
ItemLaw(t, i) ==
    [instrument_filter |-> t.shift_definition.instrument_filter,
     shift_target |-> t.shift_target,
     rel_shift |-> t.shift_definition.rel_shifts[i + 1],
     abs_shift |-> t.shift_definition.abs_shifts[i + 1]]

\* the shift list of a coordinate as C23 describes it holds for the list r
ShiftListLaw(c, coord, r) ==
    LET pairs == WalkPairs(c, 1, 1)
        InRange(p) ==
            coord[pairs[p][1]] <
                Len(Chain(c)[pairs[p][2]].transform_def.shift_definition.rel_shifts)
    IN  IF \A p \in 1..Len(pairs) : InRange(p)
        THEN r = Ok([p \in 1..Len(pairs) |->
                        ItemLaw(Chain(c)[pairs[p][2]].transform_def,
                                coord[pairs[p][1]])])
        ELSE ~r.ok /\ r.err[1] = "InvalidScenario"

(* C23: per-coordinate shift list.  For each coordinate the shift list is  *)
(* built by walking the axes list in order and, for each axis with its     *)
(* coordinate index, appending shift_item_at(index) of every context of    *)
(* the ancestor chain (root first, self last) whose axis is that axis; the *)
(* executor wraps the stacked context's base_ctx, the same for every node  *)
(* of the chain; the build fails with InvalidScenario if an index is out   *)
(* of range.                                                               *)
C23_CoordinateShiftList ==
    IsSome(vctx) =>
        /\ \A n \in 1..Len(Chain(vctx[1])) :
               Chain(vctx[1])[n].base_ctx = vctx[1].base_ctx
        /\ \A k \in 1..Size(vctx[1].shape) :
               ShiftListLaw(vctx[1], Coords(vctx[1].shape)[k],
                            SliceShifts(vctx[1], Coords(vctx[1].shape)[k]))
        /\ (Priced /\ res[1].out.ok) =>
               \A k \in 1..Size(vctx[1].shape) :
                   Ok(res[1].out.val.arr[k]) =
                       price([kind |-> "ShiftedExecutor",
                              base_ctx |-> vctx[1].base_ctx,
                              shifts |-> SliceShifts(vctx[1],
                                                     Coords(vctx[1].shape)[k]).val],
                             res[1].measure, res[1].position.instrument)

\* a priced tensor with a coordinate whose list takes two different items
\* from two contexts of the chain
C23_Witness ==
    /\ Priced /\ res[1].out.ok
    /\ Len(Chain(vctx[1])) = 2
    /\ \E k \in 1..Size(vctx[1].shape) :
           LET r == SliceShifts(vctx[1], Coords(vctx[1].shape)[k])
           IN  /\ r.ok /\ Len(r.val) >= 2
               /\ r.val[1] = ItemLaw(Chain(vctx[1])[1].transform_def,
                                     Coords(vctx[1].shape)[k][1])
               /\ r.val[1] # r.val[2]

\* the kernel on the four sub-measures of the option, each priced through c
KernelOn(c, opt) ==
    black_scholes([spot |-> price(c, "UnderlyingPrice", opt).val,
                   strike |-> opt[3],
                   tte |-> price(c, "TimeToExpiry", opt).val,
                   r |-> price(c, "Rate", opt).val,
                   vol |-> price(c, "Vol", opt).val],
                  opt[5])

\* the Price of an option on a scenario, priced at every coordinate
OptionPriced ==
    /\ ScenarioCall
    /\ call[1].measure = "Price" /\ IsOption(call[1].instrument)
    /\ call[1].out.ok

\* ... on a scenario of one transform; its executor at coordinate 1 carries
\* the single item with rel 1/2 and abs 1
SingleItem == OptionPriced /\ Len(Chain(call[1].vctx)) = 1
TheItem == ItemLaw(call[1].vctx.transform_def, 1)
TheExecutor == SliceCtx(call[1].vctx, <<1>>)

\* the item's shift of x
Shifted1(x) == RAdd(RMul(RAdd(One, TheItem.rel_shift), x), TheItem.abs_shift)

\* the kernel's input m is the base context's, shifted by the item or not
InputShifted(m) ==
    price(TheExecutor, m, call[1].instrument)
        = Ok(Shifted1(price(call[1].vctx.base_ctx, m, call[1].instrument).val))
InputUnchanged(m) ==
    price(TheExecutor, m, call[1].instrument)
        = price(call[1].vctx.base_ctx, m, call[1].instrument)

\* the structure of the recursion, and the Equity filter on Price
RecursionLaw ==
    /\ OptionPriced =>
           \A se \in ScenarioExecutors :
               /\ price(se, "Price", call[1].instrument)
                      = process_shifts(se, "Price", call[1].instrument,
                                       KernelOn(se, call[1].instrument).val)
               /\ price(se, "UnderlyingPrice", call[1].instrument)
                      = process_shifts(se, "UnderlyingPrice", call[1].instrument,
                                       price(se, "Price", call[1].instrument[2]).val)
    /\ (SingleItem /\ TheItem.shift_target[2] = "Price"
            /\ TheItem.instrument_filter[1] = "RiskFactorFilter") =>
           /\ InputShifted("UnderlyingPrice")
           /\ call[1].out.val.arr[2] = KernelOn(TheExecutor, call[1].instrument).val

(* C24, as stated: the option's Price is the kernel on UnderlyingPrice,    *)
(* Rate, Vol and TimeToExpiry priced through the same context, and         *)
(* UnderlyingPrice is ctx.price(Price, underlying); every shift item       *)
(* targeting UnderlyingPrice or Vol, or targeting Price with a filter      *)
(* accepting the underlying stock, changes the inputs of the kernel; a     *)
(* Price shift with an Equity filter is not applied to the option's own    *)
(* Price.                                                                  *)
C24_AsStated ==
    /\ RecursionLaw
    /\ (SingleItem /\ TheItem.shift_target[2] \in {"UnderlyingPrice", "Vol"}) =>
           ~InputUnchanged(TheItem.shift_target[2])
    /\ (SingleItem /\ TheItem.shift_target[2] = "Price"
            /\ Matches(TheItem, "Price", call[1].instrument[2])) =>
           ~InputUnchanged("UnderlyingPrice")

(* C24, amended: the same, where an item targeting UnderlyingPrice or Vol  *)
(* changes the input of the kernel only if its filter accepts the option   *)
(* itself, which of the three filters only Passthrough does; with a ticker *)
(* or risk-factor filter it leaves the input as it is.                     *)
C24_RecursiveOptionPricing ==
    /\ RecursionLaw
    /\ (SingleItem /\ TheItem.shift_target[2] \in {"UnderlyingPrice", "Vol"}) =>
           IF TheItem.instrument_filter[1] = "Passthrough"
           THEN InputShifted(TheItem.shift_target[2])
                    /\ ~InputUnchanged(TheItem.shift_target[2])
           ELSE InputUnchanged(TheItem.shift_target[2])
    /\ (SingleItem /\ TheItem.shift_target[2] = "Price"
            /\ Matches(TheItem, "Price", call[1].instrument[2])) =>
           InputShifted("UnderlyingPrice") /\ ~InputUnchanged("UnderlyingPrice")

\* the call priced under a Vol shift, which moves the kernel's vol from 1/2
\* to 7/4
C24_Witness ==
    /\ SingleItem
    /\ call[1].instrument = AaplCall
    /\ TheItem.shift_target[2] = "Vol"
    /\ TheItem.instrument_filter[1] = "Passthrough"
    /\ price(TheExecutor, "Vol", AaplCall) = Ok(Rat(7, 4))
    /\ call[1].out.val.arr[2] # call[1].out.val.arr[1]

\* the coordinates of a shape in row-major order: the last axis fastest
RECURSIVE RowMajor(_)
RowMajor(shape) ==
    IF shape = <<>> THEN << <<>> >>
    ELSE LET RECURSIVE Rows(_)
             Rows(i) ==
                 IF i >= shape[1] THEN <<>>
                 ELSE [k \in 1..Len(RowMajor(Tail(shape))) |->
                          <<i>> \o RowMajor(Tail(shape))[k]] \o Rows(i + 1)
         IN  Rows(0)

\* the coordinate fails: its shift list or its price is an error
FailsAt(c, m, ins, coord) ==
    \/ ~SliceShifts(c, coord).ok
    \/ ~price(SliceCtx(c, coord), m, ins).ok

(* C25: deterministic row-major evaluation.  Within one price call the     *)
(* coordinates are visited in row-major order over the axes in axes order  *)
(* (last axis fastest), each exactly once, and evaluation stops at the     *)
(* first coordinate in that order that fails: the error returned is that   *)
(* coordinate's and no later coordinate is evaluated.                      *)
C25_RowMajorEvaluation ==
    Priced =>
        LET order == RowMajor(Dims(vctx[1].axes))
            seen == res[1].visited
            m == res[1].measure
            ins == res[1].position.instrument
        IN  /\ Len(seen) <= Len(order)
            /\ seen = SubSeq(order, 1, Len(seen))
            /\ \A j, k \in 1..Len(seen) : seen[j] = seen[k] => j = k
            /\ \A k \in 1..(Len(seen) - 1) : ~FailsAt(vctx[1], m, ins, seen[k])
            /\ IF res[1].out.ok
               THEN Len(seen) = Len(order)
                        /\ (seen # <<>> => ~FailsAt(vctx[1], m, ins, Last(seen)))
               ELSE /\ seen # <<>>
                    /\ FailsAt(vctx[1], m, ins, Last(seen))
                    /\ res[1].out =
                           IF SliceShifts(vctx[1], Last(seen)).ok
                           THEN price(SliceCtx(vctx[1], Last(seen)), m, ins)
                           ELSE SliceShifts(vctx[1], Last(seen))

\* a call over two axes that stopped at the second coordinate of the first
\* row, with the second row never evaluated
C25_Witness ==
    /\ Priced /\ ~res[1].out.ok
    /\ Dims(vctx[1].axes) = <<2, 2>>
    /\ res[1].visited = << <<0, 0>>, <<0, 1>> >>

\* the bumps of the ladder, and the executor the ladder puts on se for bump j
LadderBump == <<Rat(-1, 100), Zero, Rat(1, 100)>>
LadderExecutor(se, j) ==
    [kind |-> "ShiftedExecutor", base_ctx |-> se,
     shifts |-> <<[instrument_filter |-> <<"RiskFactorFilter", "Equity">>,
                   shift_target |-> <<"SingleMeasureTarget", "Price">>,
                   rel_shift |-> LadderBump[j], abs_shift |-> Zero]>>]

\* V_down, V, V_up of the instrument on se
LadderOn(se, ins) == [j \in 1..3 |-> price(LadderExecutor(se, j), "Price", ins)]

\* the finite difference of C16 on three prices, with h = 0.01 * V
FiniteDifference(m, V) ==
    IF m = "Delta"
    THEN RDiv(RSub(V[3].val, V[1].val),
              RMul(FromInt(2), RMul(Rat(1, 100), V[2].val)))
    ELSE RDiv(RDiv(RAdd(RSub(V[3].val, RMul(FromInt(2), V[2].val)), V[1].val),
                   RMul(Rat(1, 100), V[2].val)),
              RMul(Rat(1, 100), V[2].val))

\* a greek priced on a scenario
GreekPriced ==
    /\ ScenarioCall
    /\ call[1].measure \in {"Delta", "Gamma"}
    /\ call[1].out.ok

\* the stock whose Price the ladder bumps
BumpedStock ==
    IF IsStock(call[1].instrument) THEN call[1].instrument ELSE call[1].instrument[2]

(* C26: greeks under a scenario.  When Delta or Gamma is priced on an      *)
(* executor that carries scenario items, the three-point context wraps     *)
(* that executor as its base: in V_down, V, V_up the stock Price is        *)
(* (1 + b) times the scenario-shifted stock price for b in -0.01, 0,       *)
(* +0.01, and the resulting greek is passed through the scenario's shift   *)
(* processing for the measure Delta or Gamma.                              *)
C26_GreeksUnderScenario ==
    GreekPriced =>
        \A n \in 1..Size(call[1].vctx.shape) :
            LET se == SliceCtx(call[1].vctx, Coords(call[1].vctx.shape)[n])
                V == LadderOn(se, call[1].instrument)
            IN  /\ \A j \in 1..3 :
                       price(LadderExecutor(se, j), "Price", BumpedStock)
                           = Ok(RMul(RAdd(One, LadderBump[j]),
                                     price(se, "Price", BumpedStock).val))
                /\ \A j \in 1..3 : V[j].ok
                /\ V[2].val # Zero =>
                       call[1].out.val.arr[n] =
                           ProcessLaw(se, call[1].measure, call[1].instrument,
                                      FiniteDifference(call[1].measure, V))

\* the Delta of the call under a Passthrough Delta shift: 3 without the
\* shift, 3/2 * 3 + 1 with it
C26_Witness ==
    /\ GreekPriced
    /\ call[1].measure = "Delta" /\ call[1].instrument = AaplCall
    /\ call[1].vctx.transform_def.shift_target[2] = "Delta"
    /\ call[1].out.val.arr = <<FromInt(3), Rat(11, 2)>>

\* the option trades among a sequence of trades
OptionTrades(trades) ==
    Cardinality({k \in 1..Len(trades) : IsOption(trades[k][1])})

\* the ids of InsertedPositions: the ticker of a stock, and for an option
\* trade the id made with the count of the option trades before it
RECURSIVE InsertedIds(_)
InsertedIds(trades) ==
    IF trades = <<>> THEN <<>>
    ELSE LET prefix == SubSeq(trades, 1, Len(trades) - 1)
             t == trades[Len(trades)]
         IN  IF IsStock(t[1]) /\ \E k \in 1..Len(prefix) : prefix[k][1] = t[1]
             THEN InsertedIds(prefix)
             ELSE Append(InsertedIds(prefix),
                         IF IsStock(t[1]) THEN t[1][2]
                         ELSE gen_trade_id([trade_id_counter |-> OptionTrades(prefix)],
                                           t[1]))

(* C27: portfolio container invariant.  After any sequence of add_trade    *)
(* calls position_ids has no duplicate and holds exactly the keys of the   *)
(* positions map in order of first insertion; positions_in_order yields    *)
(* every position once in insertion order; a stock trade on a ticker       *)
(* already present adds its size to the existing position without          *)
(* changing the order; every option trade creates a new position with a    *)
(* fresh id, the trade counter increasing by one per option trade and      *)
(* being part of the id.                                                   *)
C27_PortfolioContainer ==
    /\ \A i, j \in 1..Len(portfolio.position_ids) :
           portfolio.position_ids[i] = portfolio.position_ids[j] => i = j
    /\ {portfolio.position_ids[i] : i \in 1..Len(portfolio.position_ids)}
           = DOMAIN portfolio.positions
    /\ portfolio.trade_id_counter = OptionTrades(TradeLog)
    /\ positions_in_order(portfolio) =
           [i \in 1..Len(InsertedPositions(TradeLog)) |->
               <<InsertedIds(TradeLog)[i], InsertedPositions(TradeLog)[i]>>]

\* Black-Scholes on the inputs of the base context, with the spot given
KernelAt(spot) ==
    black_scholes([spot |-> spot,
                   strike |-> call[1].instrument[3],
                   tte |-> price(call[1].vctx.base_ctx, "TimeToExpiry", call[1].instrument).val,
                   r |-> price(call[1].vctx.base_ctx, "Rate", call[1].instrument).val,
                   vol |-> price(call[1].vctx.base_ctx, "Vol", call[1].instrument).val],
                  call[1].instrument[5]).val

\* S: the Price of the underlying stock on the base context
BaseSpot == price(call[1].vctx.base_ctx, "Price", call[1].instrument[2]).val

(* C28: double application of a Passthrough Price shift.  Under a shifted  *)
(* executor carrying the single item (Passthrough, Price, rel r, abs a)    *)
(* the Price of an option is (1 + r) * BS((1 + r) * S + a, strike, T, R,   *)
(* sigma) + a: the item is applied to the underlying stock's Price and     *)
(* once more to the option's own Price; with an Equity risk-factor filter  *)
(* the same item is applied to the underlying stock's Price only.          *)
C28_DoubleApplication ==
    (SingleItem /\ TheItem.shift_target[2] = "Price") =>
        /\ TheItem.instrument_filter[1] = "Passthrough" =>
               call[1].out.val.arr[2] = Shifted1(KernelAt(Shifted1(BaseSpot)))
        /\ TheItem.instrument_filter[1] = "RiskFactorFilter" =>
               call[1].out.val.arr[2] = KernelAt(Shifted1(BaseSpot))

\* the call at spot 10 and vol 1/2 is worth 5; under the Passthrough item
\* (rel 1/2, abs 1) the spot is 16, the kernel gives 14, and the Price is 22
C28_Witness ==
    /\ SingleItem
    /\ call[1].instrument = AaplCall
    /\ TheItem.shift_target[2] = "Price"
    /\ TheItem.instrument_filter[1] = "Passthrough"
    /\ TheItem.rel_shift = Rat(1, 2) /\ TheItem.abs_shift = One
    /\ KernelAt(Shifted1(BaseSpot)) = FromInt(14)
    /\ call[1].out.val.arr = <<FromInt(5), FromInt(22)>>

\* the measures no calculator takes for a stock
StockUnhandled == {"UnderlyingPrice", "Vol", "Rate", "TimeToExpiry"}

\* r is MissingCalculator exactly if the instrument is a stock and the
\* measure one of the four, and then it names the measure
MissingCalculatorLaw(r, measure, instrument) ==
    IF IsStock(instrument) /\ measure \in StockUnhandled
    THEN r = Err(MissingCalculatorError(measure))
    ELSE r.ok \/ r.err[1] # "MissingCalculatorError"

(* C29: reachability of MissingCalculator.  ctx.price never returns        *)
(* MissingCalculator for an option, for any of the eight measures; for a   *)
(* stock it returns MissingCalculator(measure) exactly for the measures    *)
(* UnderlyingPrice, Vol, Rate and TimeToExpiry, whatever the market data   *)
(* (a Lookup context with or without spot and vol) and whatever the shifts *)
(* (every executor of a scenario, and every executor of its ladder).       *)
C29_MissingCalculator ==
    /\ Called("price") =>
           MissingCalculatorLaw(call[1].out, call[1].measure, call[1].instrument)
    /\ ScenarioCall =>
           /\ \A se \in ScenarioExecutors :
                  /\ MissingCalculatorLaw(price(se, call[1].measure, call[1].instrument),
                                          call[1].measure, call[1].instrument)
                  /\ \A le \in LadderExecutors(se) :
                         MissingCalculatorLaw(
                             price(le, call[1].measure, call[1].instrument),
                             call[1].measure, call[1].instrument)
           /\ MissingCalculatorLaw(call[1].out, call[1].measure, call[1].instrument)

\* the Rate of the stock under a Passthrough shift of Price, on a context
\* that holds its spot
C29_Witness ==
    /\ ScenarioCall
    /\ call[1].instrument = Stock(AAPL) /\ call[1].measure = "Rate"
    /\ call[1].vctx.transform_def.shift_definition.instrument_filter[1] = "Passthrough"
    /\ price(call[1].vctx.base_ctx, "Price", Stock(AAPL)).ok
    /\ call[1].out = Err(MissingCalculatorError("Rate"))

\* a ctx.price call is being evaluated; it has returned to its caller
Evaluating == Called("eval") /\ call[1].stack # <<>>
Returned == Called("eval") /\ call[1].stack = <<>> /\ IsSome(call[1].out)

\* the (measure, instrument) pairs of the call path, outermost first
CallPath ==
    IF Called("eval")
    THEN [k \in 1..Len(call[1].stack) |->
             <<call[1].stack[k].measure, call[1].stack[k].instrument>>]
    ELSE <<>>

\* no pair occurs twice on the call path
NoRevisit == \A i, j \in 1..Len(CallPath) : CallPath[i] = CallPath[j] => i = j

\* what the evaluation returned is what price gives for the call
ReturnsPrice ==
    Returned => \E c \in {call[1].entered[1]} :
                    call[1].out[1] = price(c, call[1].entered[2], call[1].entered[3])

\* the chain C30 names, and the chain through Vol
ExposureChain(opt) ==
    << <<"Exposure", opt>>, <<"Delta", opt>>, <<"Price", opt>>,
       <<"UnderlyingPrice", opt>>, <<"Price", opt[2]>> >>
VolChain(opt) ==
    << <<"Exposure", opt>>, <<"Delta", opt>>, <<"Price", opt>>, <<"Vol", opt>>,
       <<"UnderlyingPrice", opt>>, <<"Price", opt[2]>> >>

(* C30, as stated: every ctx.price call eventually returns a value or an   *)
(* error, no call path revisits a (measure, instrument) pair, and the      *)
(* longest chain is option Exposure -> Delta -> option Price ->            *)
(* UnderlyingPrice -> stock Price: no call path is longer than these five. *)
C30_AsStated ==
    /\ Evaluating ~> Returned
    /\ []NoRevisit
    /\ [](Len(CallPath) <= Len(ExposureChain(AaplCall)))

(* C30, amended: every ctx.price call eventually returns a value or an     *)
(* error and no call path revisits a (measure, instrument) pair; the       *)
(* longest chain has six pairs, option Exposure -> Delta -> option Price   *)
(* -> Vol -> UnderlyingPrice -> stock Price, taken when the context has a  *)
(* vol provider for the option (Vol evaluates UnderlyingPrice once more);  *)
(* without one the longest chain is the five-pair chain of the statement.  *)
C30_Termination ==
    /\ Evaluating ~> Returned
    /\ []NoRevisit
    /\ [](Len(CallPath) <= Len(VolChain(AaplCall)))
    /\ [](Evaluating /\ ~IsSome(vol_provider(call[1].stack[1].ctx,
                                             call[1].stack[1].instrument))
              => Len(CallPath) <= Len(ExposureChain(AaplCall)))

\* the Exposure of the call on a scenario's executor, at the stock's Price
\* below the option's Vol
C30_Witness ==
    /\ Evaluating
    /\ call[1].stack[1].ctx.kind = "ShiftedExecutor"
    /\ CallPath = VolChain(AaplCall)

=============================================================================
